---- MODULE Spec2Model ----
(***************************************************************************)
(* Model of the flight-search gateway: the Amadeus client                  *)
(* (src/lib/api/amadeus.ts: token cache, rate limiter, request cache,      *)
(* retry loop) and the GET /api/flights route handler that drives it       *)
(* (src/unnamed/part_000).                                                 *)
(*                                                                         *)
(* Time is Date.now() in milliseconds.  A logical request is an async      *)
(* function; it is cut into one action per stretch of code between two     *)
(* suspension points (await fetch, await setTimeout).                      *)
(***************************************************************************)
EXTENDS Integers, Sequences, FiniteSets, TLC

\* ------------------------------------------------------------------------
\* Program constants (AmadeusClient configuration, amadeus.ts:45-50)
\* ------------------------------------------------------------------------
TOKEN_BUFFER == 60000
CACHE_TTL == 5 * 60 * 1000
RATE_LIMIT == 30
RATE_LIMIT_WINDOW == 60 * 1000
REQUEST_TIMEOUT == 30000
MAX_RETRIES == 3

\* ------------------------------------------------------------------------
\* Bounds of the model
\* ------------------------------------------------------------------------
\* number of clock advances in one behaviour
MaxTicks == 3
\* lifetime (seconds) the identity endpoint reports in expires_in
ExpiresIn == 600
\* gate checks counted per rate-limit window by the observer windowChecks
MaxChecks == 32
\* logical requests started in one behaviour of Spec
MaxRequests == 2

\* clock advances in one behaviour of SpecRoutes
MaxWaits == 5
\* flights in one list handed to applyFilters or sortFlights
MaxFlights == 3
\* candidate airports in one list handed to normalizeAndScoreAirports
MaxCandidates == 3

\* longest string handed to fuzzyScore
MaxStr == 3

\* DELETE /api/airports requests in one behaviour of SpecCache
MaxDeletes == 1
\* clock advances in one behaviour of SpecCache
MaxAges == 2

\* largest maxPinnedFlights a compare bar is created with
MaxPinned == 3

\* concurrent logical requests (async call chains on the one event loop)
Procs == {"r1", "r2"}

\* ------------------------------------------------------------------------
\* Option values: <<>> is null/undefined, <<v>> is a present value
\* ------------------------------------------------------------------------
None == <<>>
Some(v) == <<v>>
IsSome(o) == Len(o) = 1
Val(o) == o[1]

\* ------------------------------------------------------------------------
\* Characters and airport codes (strings are sequences of characters)
\* ------------------------------------------------------------------------
UpperLetters == {"A", "F", "H", "J", "K", "L", "R"}
LowerLetters == {"a", "f", "h", "j", "k", "l", "r"}

\* String.prototype.toUpperCase on one character
CharToUpper(c) ==
  CASE c = "a" -> "A" [] c = "f" -> "F" [] c = "h" -> "H" [] c = "j" -> "J"
    [] c = "k" -> "K" [] c = "l" -> "L" [] c = "r" -> "R" [] OTHER -> c

\* String.prototype.toUpperCase
toUpperCase(s) == [i \in 1..Len(s) |-> CharToUpper(s[i])]

\* the regular expression /^[A-Z]{3}$/
MatchesUpper3(s) == Len(s) = 3 /\ \A i \in 1..Len(s) : s[i] \in UpperLetters

\* String.prototype.toLowerCase on one character
CharToLower(c) ==
  CASE c = "A" -> "a" [] c = "F" -> "f" [] c = "H" -> "h" [] c = "J" -> "j"
    [] c = "K" -> "k" [] c = "L" -> "l" [] c = "R" -> "r" [] OTHER -> c

\* String.prototype.toLowerCase
toLowerCase(s) == [i \in 1..Len(s) |-> CharToLower(s[i])]

\* String.prototype.trim: the string without leading and trailing blanks
RECURSIVE trimStart(_)
trimStart(s) == IF s /= <<>> /\ Head(s) = " " THEN trimStart(Tail(s)) ELSE s
RECURSIVE trimEnd(_)
trimEnd(s) ==
  IF s /= <<>> /\ s[Len(s)] = " " THEN trimEnd(SubSeq(s, 1, Len(s) - 1)) ELSE s
trim(s) == trimEnd(trimStart(s))

\* decimal digits and their values
DigitChars == {"0", "1", "2", "3", "4", "5", "6", "7", "8", "9"}
DigitValue(c) ==
  CASE c = "0" -> 0 [] c = "1" -> 1 [] c = "2" -> 2 [] c = "3" -> 3
    [] c = "4" -> 4 [] c = "5" -> 5 [] c = "6" -> 6 [] c = "7" -> 7
    [] c = "8" -> 8 [] OTHER -> 9

\* the value of the longest prefix of s made of digits (s starts with one)
RECURSIVE DigitsValue(_, _)
DigitsValue(s, acc) ==
  IF s = <<>> \/ Head(s) \notin DigitChars THEN acc
  ELSE DigitsValue(Tail(s), acc * 10 + DigitValue(Head(s)))

\* parseInt(val): None is NaN; a sign and the leading digits are read, what
\* follows them is ignored
parseInt(val) ==
  LET t == trim(val)
      neg == t /= <<>> /\ Head(t) = "-"
      body == IF neg THEN Tail(t) ELSE t
  IN IF body = <<>> \/ Head(body) \notin DigitChars THEN None
     ELSE Some(IF neg THEN 0 - DigitsValue(body, 0) ELSE DigitsValue(body, 0))

\* ------------------------------------------------------------------------
\* Error messages: a message is a sequence of text fragments, so that
\* String.prototype.includes(needle) is a search for a fragment
\* ------------------------------------------------------------------------
Includes(msg, needle) == \E i \in 1..Len(msg) : msg[i] = needle

\* amadeus.ts:172-174
RateLimitMessage ==
  <<"Rate limit", " exceeded. Please wait before making another request.">>
\* amadeus.ts:259
GenericErrorMessage == <<"An error occurred with the Amadeus API">>
\* TypeError of Body.json() on a body that was already read (Fetch standard)
BodyUsedMessage == <<"Body is unusable: Body has already been read">>
\* SyntaxError of Body.json() on a body that is not JSON
BadJsonMessage == <<"Unexpected end of JSON input">>
\* TypeError of fetch() on a connection failure
NetworkMessage == <<"fetch failed">>
\* AbortError of fetch() when the AbortController fires
AbortMessage == <<"This operation was aborted">>

\* ------------------------------------------------------------------------
\* Upstream error envelopes (parsed JSON bodies of non-2xx responses)
\* ------------------------------------------------------------------------
\* errors: None when the body has no errors array, else the option of
\* errors[0].detail; title, message: options of the top-level members
EnvDetail == [errors |-> Some(Some("detail: invalid query")),
              title |-> Some("title: bad request"), message |-> None]
EnvTitle == [errors |-> Some(None),
             title |-> Some("title: bad request"), message |-> Some("message: failure")]
EnvMessage == [errors |-> None, title |-> None, message |-> Some("message: failure")]
EnvEmpty == [errors |-> None, title |-> None, message |-> None]
Envelopes == {EnvDetail, EnvTitle, EnvMessage, EnvEmpty}

\* AmadeusClient.formatError
formatError(err) ==
  IF IsSome(err.errors) /\ IsSome(Val(err.errors))
  THEN <<Val(Val(err.errors))>>
  ELSE IF IsSome(err.title) THEN <<Val(err.title)>>
  ELSE IF IsSome(err.message) THEN <<Val(err.message)>>
  ELSE GenericErrorMessage

\* ------------------------------------------------------------------------
\* What the upstream servers can answer
\* ------------------------------------------------------------------------
OffersA == <<[id |-> "A"]>>
OffersB == <<[id |-> "B"]>>
Payloads == {OffersA, OffersB}
ErrorStatuses == {400, 429, 500}

\* outcomes of one fetch of a data endpoint
ApiOutcomes ==
  [kind : {"ok"}, data : Payloads]
    \cup [kind : {"badjson"}]
    \cup [kind : {"http"}, status : ErrorStatuses, env : Envelopes]
    \cup [kind : {"network"}]
    \cup [kind : {"abort"}]

\* outcomes of the credential exchange
AuthOutcomes ==
  [kind : {"ok"}, expires_in : {ExpiresIn}]
    \cup [kind : {"badjson"}]
    \cup [kind : {"http"}, status : {401, 500}]
    \cup [kind : {"network"}]

\* ------------------------------------------------------------------------
\* Inputs
\* ------------------------------------------------------------------------
JFK == <<"J", "F", "K">>
LHR == <<"L", "H", "R">>

\* milliseconds in an hour and in a day
HOUR_MS == 60 * 60 * 1000
DAY_MS == 24 * HOUR_MS

\* the UTC day (counted from the epoch of the model) on which the server
\* starts, and the day of the date 2099-01-01 of the scenarios
EpochDay == 2
FarDay == 9

\* A date parameter as the client sent it: malformed text (the empty string
\* included), text of the shape YYYY-MM-DD that names no day (2024-13-45),
\* or the date of a day
MalformedDate == [kind |-> "malformed", day |-> 0]
InvalidDate == [kind |-> "invalid", day |-> 0]
DateOf(d) == [kind |-> "date", day |-> d]
DateStrings ==
  {MalformedDate, InvalidDate}
    \cup {DateOf(d) : d \in {EpochDay - 1, EpochDay, EpochDay + 1, FarDay}}

\* the regular expression /^\d{4}-\d{2}-\d{2}$/
MatchesDate(date) == date.kind /= "malformed"

\* new Date(date).getTime() of a date-only string: midnight UTC of the day,
\* None (NaN) for an invalid date
DateTime(date) == IF date.kind = "date" THEN Some(date.day * DAY_MS) ELSE None

\* the query of the scenario departure=JFK&arrival=LHR&departDate=2099-01-01
\* &adults=2 (absent parameters are empty strings, absent returnDate None)
DefaultQuery ==
  [departure |-> JFK, arrival |-> LHR, departDate |-> DateOf(FarDay),
   returnDate |-> None, adults |-> <<"2">>, children |-> <<>>, max |-> <<>>]

\* raw query strings of GET /api/flights: the scenario's query with the
\* codes, the departure date, the return date and the children count, or one
\* of the counts changed
CodeQueries ==
  {[DefaultQuery EXCEPT !.departure = d, !.arrival = a] :
     d \in {JFK, <<"j", "f", "k">>},
     a \in {LHR, <<"l", "h", "r">>, <<"J", "F">>, <<"J", "F", "K", "1">>,
            <<"1", "2", "A">>, <<>>}}
DateQueries ==
  {[DefaultQuery EXCEPT !.departDate = d] : d \in DateStrings}
    \cup {[DefaultQuery EXCEPT !.returnDate = Some(DateOf(FarDay)), !.children = c] :
             c \in {<<>>, <<"0">>, <<"3">>}}
CountQueries ==
  {[DefaultQuery EXCEPT !.adults = a] : a \in {<<>>, <<"0">>, <<"1", "0">>, <<"x">>}}
    \cup {[DefaultQuery EXCEPT !.children = c] : c \in {<<"8">>, <<"9">>, <<"-", "1">>}}
    \cup {[DefaultQuery EXCEPT !.max = m] :
             m \in {<<"2", "5", "0">>, <<"2", "5", "1">>, <<"0">>}}
FlightQueries == CodeQueries \cup DateQueries \cup CountQueries

\* the queries the gateway behaviours are explored with
SomeFlightQueries ==
  {q \in CodeQueries : q.departure = JFK /\ q.arrival \in {LHR, <<"l", "h", "r">>}}
AirportKeywords == {JFK}

\* raw query strings of GET /api/airports
AirportQueries ==
  [q : {JFK, <<"j", "f", "k">>, <<"J", "F">>, <<>>, <<" ">>},
   limit : {<<>>, <<"2">>, <<"0">>, <<"5", "1">>, <<"x">>}]

\* the wall clock of the server when it starts: hour of the UTC day, and the
\* offset (hours) of its timezone from UTC
UtcHours == {0, 12, 23}
TzOffsets == {0 - 5, 0, 2}
ServerClocks == [utcHour : UtcHours, offset : TzOffsets]
DefaultClock == [utcHour |-> 12, offset |-> 0]

\* ------------------------------------------------------------------------
\* State
\* ------------------------------------------------------------------------
VARIABLES
  now,           \* Date.now()
  ticks,         \* clock advances so far
  cachedToken,   \* AmadeusClient.cachedToken
  rateLimitMap,  \* AmadeusClient.rateLimitMap
  requestCache,  \* AmadeusClient.requestCache
  windowChecks,  \* observer: calls of checkRateLimit in the current window
  started,       \* logical requests started so far (saturates at MaxRequests)
  proc,          \* the logical requests
  server,        \* the wall clock of the server at its start, and its timezone
  airportCache,  \* airportCache of the airports route
  calc           \* the call of a pure function under examination

vars == <<now, ticks, cachedToken, rateLimitMap, requestCache, windowChecks,
          started, proc, server, airportCache, calc>>

\* a logical request that has not started.  op, query, params, endpoint,
\* cached, token, attempt are the locals of the handler and of request();
\* route, rquery, rlimit, airports, results, fromCache, details are the
\* locals and the response of the airports route handler; the other fields
\* record what the request did (issues: what the schema found; lookup,
\* lookupGate: how the getAirport call of the airports handler ended)
IdleProc ==
  [pc |-> "idle", op |-> "none", query |-> None, params |-> None,
   route |-> "none", rquery |-> <<>>, rlimit |-> 0, airports |-> <<>>,
   results |-> None, fromCache |-> FALSE, details |-> {}, issues |-> {},
   lookup |-> "none", lookupGate |-> "none", uniform |-> "none",
   endpoint |-> <<>>, startedAt |-> 0,
   cached |-> None, tokenSeen |-> None, token |-> None,
   attempt |-> 0, sentAt |-> 0, wakeAt |-> 0,
   status |-> 0, outcome |-> "none", data |-> None, error |-> <<>>,
   gate |-> "none", cacheHit |-> FALSE, authCalls |-> 0, httpCalls |-> 0,
   exchange |-> "none", waits |-> <<>>, last |-> None, onlyRetryable |-> TRUE]

Init ==
  /\ now = 0
  /\ ticks = 0
  /\ cachedToken = None
  /\ rateLimitMap = <<>>
  /\ requestCache = <<>>
  /\ windowChecks = [checks |-> 0, resetAt |-> 0, prev |-> 0]
  /\ started = 0
  /\ proc = [p \in Procs |-> IdleProc]
  /\ server = DefaultClock
  /\ airportCache = <<>>
  /\ calc = None

\* Map.prototype.set
MapSet(m, k, v) == [x \in DOMAIN m \cup {k} |-> IF x = k THEN v ELSE m[x]]

\* ------------------------------------------------------------------------
\* GET /api/flights: validation (part_000:27-145)
\* ------------------------------------------------------------------------
\* one code field of flightSearchSchema: min(3), max(3), regex, then transform
CodeFieldValid(s) == Len(s) >= 3 /\ Len(s) <= 3 /\ MatchesUpper3(s)
CodeFieldValue(s) == toUpperCase(s)

\* Date.now() as an instant of the wall clock (milliseconds from the epoch
\* of the model)
WallNow == (EpochDay * 24 + server.utcHour) * HOUR_MS + now

\* const today = new Date(); today.setHours(0, 0, 0, 0): the instant of the
\* midnight that began the current day of the server's timezone
LocalMidnight ==
  LET shift == server.offset * HOUR_MS
  IN ((WallNow + shift) \div DAY_MS) * DAY_MS - shift

\* the refinement of departDate: d >= today (false when d is an invalid date)
DateNotPast(date) == IsSome(DateTime(date)) /\ Val(DateTime(date)) >= LocalMidnight

\* one date field: regex, then refine
DateFieldValid(date) == MatchesDate(date) /\ DateNotPast(date)

\* mutant of CountFieldValid: the upper limit is one too high
CountFieldValidLoose(val, lo, hi) ==
  LET n == parseInt(val) IN IsSome(n) /\ Val(n) >= lo /\ Val(n) <= hi + 1

\* one count field: default, transform parseInt, refine lo <= val <= hi
CountFieldValid(val, lo, hi) ==
  LET n == parseInt(val) IN IsSome(n) /\ Val(n) >= lo /\ Val(n) <= hi

\* rawData of parseSearchParams (flights): queryParams.get(name) || default;
\* returnDate is not read from the query
rawData(q) ==
  [departure |-> q.departure, arrival |-> q.arrival, departDate |-> q.departDate,
   adults |-> IF q.adults = <<>> THEN <<"1">> ELSE q.adults,
   children |-> IF q.children = <<>> THEN <<"0">> ELSE q.children,
   max |-> IF q.max = <<>> THEN <<"5", "0">> ELSE q.max]

\* the paths of the issues flightSearchSchema.parse(raw) raises (returnDate is
\* undefined in raw, and an undefined returnDate passes)
SchemaIssues(raw) ==
  {f \in {"departure", "arrival", "departDate", "adults", "children", "max"} :
     CASE f = "departure" -> ~CodeFieldValid(raw.departure)
       [] f = "arrival" -> ~CodeFieldValid(raw.arrival)
       [] f = "departDate" -> ~DateFieldValid(raw.departDate)
       [] f = "adults" -> ~CountFieldValid(raw.adults, 1, 9)
       [] f = "children" -> ~CountFieldValid(raw.children, 0, 8)
       [] OTHER -> ~CountFieldValid(raw.max, 1, 250)}

\* flightSearchSchema.parse succeeds
flightSearchSchema(raw) == SchemaIssues(raw) = {}

\* the output of flightSearchSchema.parse
SchemaOutput(raw) ==
  [departure |-> CodeFieldValue(raw.departure),
   arrival |-> CodeFieldValue(raw.arrival),
   departDate |-> raw.departDate,
   returnDate |-> None,
   adults |-> Val(parseInt(raw.adults)),
   children |-> Val(parseInt(raw.children)),
   max |-> Val(parseInt(raw.max))]

\* parseSearchParams (flights): data is None when validation fails; errors
\* is the set of keys of the errors object, which the catch block leaves
\* empty
parseSearchParams(q) ==
  LET raw == rawData(q)
  IN IF flightSearchSchema(raw)
     THEN [valid |-> TRUE, data |-> Some(SchemaOutput(raw)), errors |-> {}]
     ELSE [valid |-> FALSE, data |-> None, errors |-> {}]

\* buildSearchParams (returnDate is not copied)
buildSearchParams(validated) ==
  [departure |-> validated.departure, arrival |-> validated.arrival,
   departDate |-> validated.departDate, returnDate |-> None,
   adults |-> validated.adults, children |-> validated.children,
   max |-> validated.max]

\* the query string searchFlights builds: the fixed parameters, then
\* returnDate when params.returnDate is set and children when it is > 0
FlightsQueryString(params) ==
  [originLocationCode |-> params.departure,
   destinationLocationCode |-> params.arrival,
   departureDate |-> params.departDate, adults |-> params.adults,
   max |-> IF params.max = 0 THEN 50 ELSE params.max,
   returnDate |-> params.returnDate,
   children |-> IF params.children > 0 THEN Some(params.children) ELSE None]

\* endpoint strings handed to request() (the cache key is the endpoint
\* followed by the constant JSON.stringify(""))
FlightsEndpoint(params) ==
  <<"/v2/shopping/flight-offers", FlightsQueryString(params)>>
AirportsEndpoint(keyword) == <<"/v1/reference-data/locations?keyword", keyword>>
AirportEndpoint(code) == <<"/v1/reference-data/locations?code", code>>

\* ------------------------------------------------------------------------
\* GET /api/airports: validation and scoring (part_000:315-466)
\* ------------------------------------------------------------------------
\* lifetime of an entry of airportCache (CACHE_TTL of the airports route)
AIRPORT_CACHE_TTL == 24 * 60 * 60 * 1000

\* rawData of parseSearchParams (airports)
airportRawData(q) ==
  [q |-> q.q, limit |-> IF q.limit = <<>> THEN <<"1", "0">> ELSE q.limit]

\* airportSearchSchema.parse succeeds: min(1) and max(100) see the string
\* as it came, before trim
airportSearchSchema(raw) ==
  /\ Len(raw.q) >= 1 /\ Len(raw.q) <= 100
  /\ CountFieldValid(raw.limit, 1, 50)

\* parseSearchParams (airports)
parseAirportParams(q) ==
  IF airportSearchSchema(airportRawData(q))
  THEN [valid |-> TRUE,
        data |-> Some([q |-> trim(airportRawData(q).q),
                       limit |-> Val(parseInt(airportRawData(q).limit))]),
        errors |-> {}]
  ELSE [valid |-> FALSE, data |-> None, errors |-> {}]

\* isIATACode
isIATACode(query) == MatchesUpper3(trim(query))

\* mutant of AirportCacheKey: the query is taken as it was typed
AirportCacheKeyCaseSensitive(query, limit) == <<query, limit>>

\* the key of airportCache: `${query.toLowerCase()}:${limit}`
AirportCacheKey(query, limit) == <<toLowerCase(query), limit>>

\* String.prototype.startsWith, String.prototype.includes
StartsWith(haystack, needle) ==
  Len(needle) <= Len(haystack) /\ SubSeq(haystack, 1, Len(needle)) = needle
StrIncludes(haystack, needle) ==
  \E i \in 0..(Len(haystack) - Len(needle)) :
     SubSeq(haystack, i + 1, i + Len(needle)) = needle

\* levenshteinDistance: matrix[i][j] over the prefixes of s2 (rows) and s1
levenshteinDistance(s1, s2) ==
  LET matrix[i \in 0..Len(s2), j \in 0..Len(s1)] ==
        IF i = 0 THEN j
        ELSE IF j = 0 THEN i
        ELSE IF s2[i] = s1[j] THEN matrix[i - 1, j - 1]
        ELSE LET sub == matrix[i - 1, j - 1] + 1
                 ins == matrix[i, j - 1] + 1
                 del == matrix[i - 1, j] + 1
                 m == IF sub <= ins THEN sub ELSE ins
             IN IF m <= del THEN m ELSE del
  IN matrix[Len(s2), Len(s1)]

\* Scores are kept as whole multiples of 1/SCORE_UNIT: fuzzyScore yields
\* FUZZY_UNIT times the score of the code, and the composite score is
\* SCORE_UNIT times the score of the code
FUZZY_UNIT == 120
SCORE_UNIT == 1200

\* mutant of fuzzyScore: the strings are compared as they are
fuzzyScoreCaseSensitive(needle, haystack) ==
  LET maxLen == IF Len(needle) >= Len(haystack) THEN Len(needle) ELSE Len(haystack)
      distance == levenshteinDistance(needle, haystack)
  IN IF needle = haystack THEN 120
     ELSE IF StartsWith(haystack, needle) THEN 108
     ELSE IF StrIncludes(haystack, needle) THEN 84
     ELSE ((maxLen - distance) * 60) \div maxLen

\* fuzzyScore (times FUZZY_UNIT)
fuzzyScore(needle0, haystack0) ==
  LET needle == toLowerCase(needle0)
      haystack == toLowerCase(haystack0)
      maxLen == IF Len(needle) >= Len(haystack) THEN Len(needle) ELSE Len(haystack)
      distance == levenshteinDistance(needle, haystack)
  IN IF needle = haystack THEN 120
     ELSE IF StartsWith(haystack, needle) THEN 108
     ELSE IF StrIncludes(haystack, needle) THEN 84
     ELSE ((maxLen - distance) * 60) \div maxLen

\* the composite score of one airport (times SCORE_UNIT):
\* Math.max(codeScore * 1.5, cityScore * 1.2, nameScore)
CompositeScore(airport, query) ==
  LET codeScore == fuzzyScore(query, airport.iataCode) * 15
      cityScore == fuzzyScore(query, airport.city) * 12
      nameScore == fuzzyScore(query, airport.name) * 10
      m == IF codeScore >= cityScore THEN codeScore ELSE cityScore
  IN IF m >= nameScore THEN m ELSE nameScore

\* the threshold 0.3 (times SCORE_UNIT)
SCORE_THRESHOLD == 360

\* x put into the list ys, which is sorted by rank, in front of the first
\* element the comparator orders after it (one of greater rank)
RECURSIVE InsertSorted(_, _)
InsertSorted(x, ys) ==
  IF ys = <<>> THEN <<x>>
  ELSE IF Head(ys).rank - x.rank > 0 THEN <<x>> \o ys
  ELSE <<Head(ys)>> \o InsertSorted(x, Tail(ys))

\* Array.prototype.sort((a, b) => a.rank - b.rank): a stable sort
RECURSIVE StableSort(_)
StableSort(xs) ==
  IF xs = <<>> THEN <<>>
  ELSE InsertSorted(xs[Len(xs)], StableSort(SubSeq(xs, 1, Len(xs) - 1)))

\* Array.prototype.slice(0, n)
SliceTo(xs, n) == SubSeq(xs, 1, IF n <= Len(xs) THEN n ELSE Len(xs))

\* the scored airports: the comparator b.score - a.score is the ascending
\* order of rank = -score
ScoredAirports(airports, query) ==
  [i \in 1..Len(airports) |->
     [airport |-> airports[i], score |-> CompositeScore(airports[i], query),
      rank |-> 0 - CompositeScore(airports[i], query)]]

\* .filter((airport) => airport.score > 0.3)
AboveThreshold(a) == a.score > SCORE_THRESHOLD

\* mutant of normalizeAndScoreAirports: the list is cut before it is sorted
normalizeAndScoreAirportsCutFirst(airports, query, limit) ==
  StableSort(SliceTo(SelectSeq(ScoredAirports(airports, query), AboveThreshold), limit))

\* normalizeAndScoreAirports: map to scored, filter, sort, slice
normalizeAndScoreAirports(airports, query, limit) ==
  SliceTo(StableSort(SelectSeq(ScoredAirports(airports, query), AboveThreshold)), limit)

\* ------------------------------------------------------------------------
\* Flight filters and sorting (src/lib/utils/flight-utils.ts)
\* ------------------------------------------------------------------------
\* An ISO 8601 duration P[nD]T[nH][nM] is the record of its parts, each an
\* option.  durationToMinutes: the regular expression PT(\d+H)?(\d+M)? finds
\* no match in a text with a day part, and every missing part counts 0
durationToMinutes(duration) ==
  IF IsSome(duration.days) THEN 0
  ELSE (IF IsSome(duration.hours) THEN Val(duration.hours) ELSE 0) * 60
       + (IF IsSome(duration.minutes) THEN Val(duration.minutes) ELSE 0)

\* the duration text PTnHnM of a number of minutes
DurationOf(minutes) ==
  [days |-> None, hours |-> Some(minutes \div 60), minutes |-> Some(minutes % 60)]

\* extractHour: new Date(isoDateTime).getHours() of a local date-time
extractHour(time) == time.hour
\* new Date(isoDateTime).getTime(), in hours
TimeValue(time) == time.day * 24 + time.hour

\* filterByPrice, filterByStops, filterByAirlines
filterByPrice(flights, minPrice, maxPrice) ==
  LET Keep(f) == f.price >= minPrice /\ f.price <= maxPrice
  IN SelectSeq(flights, Keep)
filterByStops(flights, maxStops) ==
  LET Keep(f) == f.stops <= maxStops
  IN SelectSeq(flights, Keep)
filterByAirlines(flights, airlines) ==
  LET Keep(f) == \E i \in 1..Len(f.airlines) : \E j \in 1..Len(airlines) :
                    f.airlines[i] = airlines[j]
  IN IF Len(airlines) = 0 THEN flights ELSE SelectSeq(flights, Keep)

\* the test of filterByDepartureTime and filterByArrivalTime
InHourRange(hour, startHour, endHour) ==
  IF startHour <= endHour
  THEN hour >= startHour /\ hour < endHour
  ELSE hour >= startHour \/ hour < endHour
filterByDepartureTime(flights, startHour, endHour) ==
  LET Keep(f) == InHourRange(extractHour(f.departure), startHour, endHour)
  IN SelectSeq(flights, Keep)
filterByArrivalTime(flights, startHour, endHour) ==
  LET Keep(f) == InHourRange(extractHour(f.arrival), startHour, endHour)
  IN SelectSeq(flights, Keep)

\* filterByCabin
filterByCabin(flights, cabins) ==
  LET Keep(f) == \E j \in 1..Len(cabins) : cabins[j] = f.cabin
  IN IF Len(cabins) = 0 THEN flights ELSE SelectSeq(flights, Keep)

\* flight.segments[0]?.duration || "PT0M", in minutes
FirstSegmentMinutes(f) ==
  IF Len(f.segments) > 0 THEN durationToMinutes(f.segments[1].duration) ELSE 0

\* filterByDuration
filterByDuration(flights, maxDuration) ==
  LET Keep(f) == FirstSegmentMinutes(f) <= maxDuration
  IN SelectSeq(flights, Keep)

\* applyFilters: the filters in the order of the code, each applied when its
\* member of the filter state is set
applyFilters(flights, filters) ==
  LET f1 == IF IsSome(filters.minPrice) /\ IsSome(filters.maxPrice)
            THEN filterByPrice(flights, Val(filters.minPrice), Val(filters.maxPrice))
            ELSE flights
      f2 == IF IsSome(filters.maxStops) THEN filterByStops(f1, Val(filters.maxStops)) ELSE f1
      f3 == IF Len(filters.selectedAirlines) > 0
            THEN filterByAirlines(f2, filters.selectedAirlines) ELSE f2
      f4 == IF IsSome(filters.departureTimeRange)
            THEN filterByDepartureTime(f3, Val(filters.departureTimeRange).start,
                                       Val(filters.departureTimeRange).end)
            ELSE f3
      f5 == IF IsSome(filters.arrivalTimeRange)
            THEN filterByArrivalTime(f4, Val(filters.arrivalTimeRange).start,
                                     Val(filters.arrivalTimeRange).end)
            ELSE f4
      f6 == IF IsSome(filters.maxDuration)
            THEN filterByDuration(f5, Val(filters.maxDuration)) ELSE f5
  IN IF Len(filters.cabins) > 0 THEN filterByCabin(f6, filters.cabins) ELSE f6

\* the value the comparator of sortFlights subtracts for the sort key
SortKey(f, sortBy) ==
  CASE sortBy = "price" -> f.price
    [] sortBy = "duration" -> FirstSegmentMinutes(f)
    [] sortBy = "departure" -> TimeValue(f.departure)
    [] sortBy = "arrival" -> TimeValue(f.arrival)
    [] OTHER -> f.stops

\* sortFlights: a copy sorted by (a.key - b.key) * factor
sortFlights(flights, sortBy, order) ==
  LET factor == IF order = "asc" THEN 1 ELSE 0 - 1
      ranked == [i \in 1..Len(flights) |->
                   [flight |-> flights[i], rank |-> SortKey(flights[i], sortBy) * factor]]
      sorted == StableSort(ranked)
  IN [i \in 1..Len(sorted) |-> sorted[i].flight]

\* ------------------------------------------------------------------------
\* AmadeusClient.checkRateLimit
\* ------------------------------------------------------------------------
\* info as read from the map (or the default object)
RateInfo(key) ==
  IF key \in DOMAIN rateLimitMap
  THEN rateLimitMap[key]
  ELSE [requestCount |-> 0, resetTime |-> now + RATE_LIMIT_WINDOW]

\* info after "Reset if window has passed"
RateInfoReset(key) ==
  IF now >= RateInfo(key).resetTime
  THEN [requestCount |-> 0, resetTime |-> now + RATE_LIMIT_WINDOW]
  ELSE RateInfo(key)

\* mutant of checkRateLimit: the limit test lets one call too many through
checkRateLimitOffByOne(key) == ~(RateInfoReset(key).requestCount > RATE_LIMIT)

\* the return value of checkRateLimit
checkRateLimit(key) == ~(RateInfoReset(key).requestCount >= RATE_LIMIT)

\* variant: a rejected call is counted too
RateLimitMapCountsRejected(key) ==
  MapSet(rateLimitMap, key,
         [RateInfoReset(key) EXCEPT !.requestCount = @ + 1])

\* rateLimitMap after the call: on success the incremented info is stored;
\* on rejection only the in-place reset of an info object that is already
\* in the map is visible
RateLimitMapAfter(key) ==
  IF checkRateLimit(key)
  THEN MapSet(rateLimitMap, key,
              [RateInfoReset(key) EXCEPT !.requestCount = @ + 1])
  ELSE IF key \in DOMAIN rateLimitMap
       THEN MapSet(rateLimitMap, key, RateInfoReset(key))
       ELSE rateLimitMap

\* observer of the gate: the window a check falls into (opened by the first
\* check at or after the previous reset instant), the rank of the check in
\* it, and the number of checks the previous window saw
WindowChecksAfter ==
  IF windowChecks.checks = 0 \/ now >= windowChecks.resetAt
  THEN [checks |-> 1, resetAt |-> now + RATE_LIMIT_WINDOW,
        prev |-> windowChecks.checks]
  ELSE [windowChecks EXCEPT !.checks = @ + 1]

\* ------------------------------------------------------------------------
\* AmadeusClient.getToken / request cache reads
\* ------------------------------------------------------------------------
\* mutant of TokenValid: the token counts as valid at the buffer instant too
TokenValidInclusive ==
  IsSome(cachedToken) /\ now <= Val(cachedToken).expiresAt - TOKEN_BUFFER

\* "Return cached token if still valid"
TokenValid ==
  IsSome(cachedToken) /\ now < Val(cachedToken).expiresAt - TOKEN_BUFFER

\* mutant of CacheHit: an entry of exactly CACHE_TTL still counts as fresh
CacheHitInclusive(key) ==
  key \in DOMAIN requestCache /\ now - requestCache[key].timestamp <= CACHE_TTL

\* the cache lookup at the head of request()
CacheHit(key) ==
  key \in DOMAIN requestCache /\ now - requestCache[key].timestamp < CACHE_TTL

\* ------------------------------------------------------------------------
\* How an operation ends (searchFlights + route, searchAirports, getAirport)
\* ------------------------------------------------------------------------
\* the message of the Error an operation throws when request() threw err
OpMessage(op, err) ==
  CASE op = "flights" -> <<"Flight search failed: ">> \o err
    [] op = "searchAirports" -> <<"Airport search failed: ">> \o err
    [] OTHER -> err

\* GET /api/flights: status chosen from the message of the caught error
FlightsErrorStatus(errorMessage) ==
  IF Includes(errorMessage, "Rate limit") THEN 429
  ELSE IF Includes(errorMessage, "Authentication") THEN 401
  ELSE IF Includes(errorMessage, "timeout") THEN 504
  ELSE 400

\* request() returned d
Succeed(r, d) ==
  [r EXCEPT !.pc = IF r.route = "airports" THEN "resume" ELSE "done", !.outcome = "ok", !.data = Some(d),
            !.status = IF r.op = "flights" THEN 200 ELSE 0,
            !.sentAt = 0, !.wakeAt = 0]

\* request() threw err (getAirport swallows it and returns null)
Fail(r, err) ==
  [r EXCEPT !.pc = IF r.route = "airports" THEN "resume" ELSE "done", !.error = err,
            !.outcome = IF r.op = "getAirport" THEN "ok" ELSE "error",
            !.status = IF r.op = "flights"
                       THEN FlightsErrorStatus(OpMessage(r.op, err)) ELSE 0,
            !.sentAt = 0, !.wakeAt = 0]

\* ------------------------------------------------------------------------
\* The retry loop of request()
\* ------------------------------------------------------------------------
\* mutant of SendAttempt: a retry looks into the request cache again
SendAttemptRereadsCache(r, a, tok) ==
  IF a > 0 /\ CacheHit(r.endpoint)
  THEN Succeed(r, requestCache[r.endpoint].data)
  ELSE [r EXCEPT !.pc = "fetch", !.token = Some(tok), !.attempt = a,
                 !.sentAt = now, !.httpCalls = @ + 1]

\* the loop sends attempt a with the token it holds
SendAttempt(r, a, tok) ==
  [r EXCEPT !.pc = "fetch", !.token = Some(tok), !.attempt = a,
            !.sentAt = now, !.httpCalls = @ + 1]

\* mutant of BackoffDelay: the delay does not grow with the attempt
BackoffDelayFixed(attempt) == 1000

\* the delay of the backoff after the given attempt
BackoffDelay(attempt) == (2 ^ attempt) * 1000

\* "Exponential backoff": the request sleeps, then the loop goes on
Backoff(r) ==
  [r EXCEPT !.pc = "backoff", !.wakeAt = now + BackoffDelay(r.attempt),
            !.waits = Append(@, BackoffDelay(r.attempt))]

\* a non-2xx response is one the loop retries (429 or 5xx)
Retryable(status) == ~(status /= 429 /\ status < 500)

\* mutant of SecondJson: the body can be read again and parses to the envelope
SecondJsonParses(o) == Some(o.env)

\* response.json() on a response whose body was read before
SecondJson(o) == None

\* What one pass of the try block yields for the settled fetch o:
\* [ret |-> Some(data)] when it reaches "return data", [thrown |-> message]
\* when control lands in the catch block, [retry |-> TRUE] when it reaches
\* "continue" after the backoff
TryBlock(attempt, o) ==
  CASE o.kind = "ok" -> [ret |-> Some(o.data), thrown |-> <<>>, retry |-> FALSE]
    [] o.kind = "badjson" -> [ret |-> None, thrown |-> BadJsonMessage, retry |-> FALSE]
    [] o.kind = "network" -> [ret |-> None, thrown |-> NetworkMessage, retry |-> FALSE]
    [] o.kind = "abort" -> [ret |-> None, thrown |-> AbortMessage, retry |-> FALSE]
    [] OTHER ->
         IF ~Retryable(o.status)
         THEN \* throw new Error(errorMessage), inside the try block
              [ret |-> None, thrown |-> formatError(o.env), retry |-> FALSE]
         ELSE IF attempt < MAX_RETRIES - 1
         THEN [ret |-> None, thrown |-> <<>>, retry |-> TRUE]
         ELSE \* last attempt: control falls through to "await response.json()"
              IF IsSome(SecondJson(o))
              THEN [ret |-> SecondJson(o), thrown |-> <<>>, retry |-> FALSE]
              ELSE [ret |-> None, thrown |-> BodyUsedMessage, retry |-> FALSE]

\* the catch block of the retry loop
CatchBlock(r, err) ==
  IF r.attempt = MAX_RETRIES - 1 THEN Fail(r, err) ELSE Backoff(r)

\* the request after one pass of the loop body
AfterFetch(r, o) ==
  LET t == TryBlock(r.attempt, o)
  IN IF IsSome(t.ret) THEN Succeed(r, Val(t.ret))
     ELSE IF t.retry THEN Backoff(r)
     ELSE CatchBlock(r, t.thrown)

\* requestCache after one pass of the loop body ("Cache successful response")
CacheAfterFetch(r, o) ==
  LET t == TryBlock(r.attempt, o)
  IN IF IsSome(t.ret)
     THEN MapSet(requestCache, r.endpoint, [data |-> Val(t.ret), timestamp |-> now])
     ELSE requestCache

\* mutant of TokenAfterExchange: a failed exchange drops the cached token
TokenDroppedOnFailure(p, o) ==
  IF o.kind = "ok"
  THEN Some([token |-> <<p, now>>, expiresAt |-> now + o.expires_in * 1000])
  ELSE None

\* mutant of TokenAfterExchange: a token that is already cached is kept
TokenFirstWriteStays(p, o) ==
  IF o.kind = "ok" /\ cachedToken = None
  THEN Some([token |-> <<p, now>>, expiresAt |-> now + o.expires_in * 1000])
  ELSE cachedToken

\* cachedToken after the credential exchange of request p settled with o
TokenAfterExchange(p, o) ==
  IF o.kind = "ok"
  THEN Some([token |-> <<p, now>>, expiresAt |-> now + o.expires_in * 1000])
  ELSE cachedToken

\* the message of the Error getToken throws for a failed exchange
AuthErrorMessage(o) ==
  <<"Amadeus auth error: ">> \o
    (CASE o.kind = "http" -> <<"Authentication", " failed: ", ToString(o.status)>>
       [] o.kind = "badjson" -> BadJsonMessage
       [] OTHER -> NetworkMessage)

\* mutant of StartStage: the gate is consulted before the cache
StartStageGateFirst(key) ==
  IF ~checkRateLimit("global") THEN [stage |-> "reject", gated |-> TRUE]
  ELSE IF CacheHit(key) THEN [stage |-> "hit", gated |-> TRUE]
  ELSE IF TokenValid THEN [stage |-> "send", gated |-> TRUE]
  ELSE [stage |-> "auth", gated |-> TRUE]

\* What request() does before its first suspension, in the order of its
\* statements: stage is how far it gets (answered from the cache, rejected
\* by the gate, attempt 0 sent with the cached token, or waiting for the
\* credential exchange), gated whether checkRateLimit was called on the way
StartStage(key) ==
  IF CacheHit(key) THEN [stage |-> "hit", gated |-> FALSE]
  ELSE IF ~checkRateLimit("global") THEN [stage |-> "reject", gated |-> TRUE]
  ELSE IF TokenValid THEN [stage |-> "send", gated |-> TRUE]
  ELSE [stage |-> "auth", gated |-> TRUE]

\* ------------------------------------------------------------------------
\* Actions
\* ------------------------------------------------------------------------
\* time passes
Tick(d) ==
  /\ ticks < MaxTicks
  /\ now' = now + d
  /\ ticks' = ticks + 1
  /\ UNCHANGED <<cachedToken, rateLimitMap, requestCache, windowChecks, started, proc,
                 server, airportCache, calc>>

\* request(): cache lookup, rate-limit gate, getToken up to its first await
RequestCall(p, r0) ==
  LET st == StartStage(r0.endpoint)
      r == [r0 EXCEPT !.startedAt = now,
                      !.cached = IF r0.endpoint \in DOMAIN requestCache
                                 THEN Some(requestCache[r0.endpoint]) ELSE None,
                      !.cacheHit = (st.stage = "hit"),
                      !.gate = IF ~st.gated THEN "none"
                               ELSE IF checkRateLimit("global") THEN "pass"
                               ELSE "reject",
                      !.tokenSeen = IF st.stage \in {"send", "auth"}
                                    THEN cachedToken ELSE None]
  IN /\ IF st.gated
        THEN /\ WindowChecksAfter.checks <= MaxChecks
             /\ rateLimitMap' = RateLimitMapAfter("global")
             /\ windowChecks' = WindowChecksAfter
        ELSE UNCHANGED <<rateLimitMap, windowChecks>>
     /\ proc' = [proc EXCEPT ![p] =
            CASE st.stage = "hit" -> Succeed(r, Val(r.cached).data)
              [] st.stage = "reject" -> Fail(r, RateLimitMessage)
              [] st.stage = "send" -> SendAttempt(r, 0, Val(cachedToken).token)
              [] OTHER -> [r EXCEPT !.pc = "auth", !.authCalls = @ + 1]]
     /\ UNCHANGED <<now, ticks, cachedToken, requestCache, server, calc>>

\* a logical request enters request()
RequestStart(p, r0) ==
  /\ RequestCall(p, r0)
  /\ started' = IF started < MaxRequests THEN started + 1 ELSE started
  /\ UNCHANGED airportCache

\* GET /api/flights with raw query q
GetFlights(p, q) ==
  /\ proc[p].pc \in {"idle", "done"}
  /\ \E parseResult \in {parseSearchParams(q)} :
     LET base == [IdleProc EXCEPT !.op = "flights", !.query = Some(q)]
     IN IF ~parseResult.valid
        THEN /\ proc' = [proc EXCEPT ![p] =
                    [base EXCEPT !.pc = "done", !.status = 400, !.outcome = "invalid",
                                 !.issues = SchemaIssues(rawData(q)),
                                 !.details = parseResult.errors]]
             /\ started' = IF started < MaxRequests THEN started + 1 ELSE started
             /\ UNCHANGED <<now, ticks, cachedToken, rateLimitMap, requestCache,
                            windowChecks, server, airportCache, calc>>
        ELSE RequestStart(p, [base EXCEPT
                 !.params = parseResult.data,
                 !.endpoint = FlightsEndpoint(buildSearchParams(Val(parseResult.data)))])

\* client.searchAirports(keyword)
SearchAirports(p, keyword) ==
  /\ proc[p].pc \in {"idle", "done"}
  /\ RequestStart(p, [IdleProc EXCEPT !.op = "searchAirports",
                                      !.endpoint = AirportsEndpoint(keyword)])

\* client.getAirport(iataCode)
GetAirport(p, code) ==
  /\ proc[p].pc \in {"idle", "done"}
  /\ RequestStart(p, [IdleProc EXCEPT !.op = "getAirport",
                                      !.endpoint = AirportEndpoint(code)])

\* the credential exchange of getToken settles with outcome o
AuthRespond(p, o) ==
  /\ proc[p].pc = "auth"
  /\ cachedToken' = TokenAfterExchange(p, o)
  /\ proc' = [proc EXCEPT ![p] =
        IF o.kind = "ok" THEN SendAttempt([@ EXCEPT !.exchange = o.kind], 0, <<p, now>>)
        ELSE Fail([@ EXCEPT !.exchange = o.kind], AuthErrorMessage(o))]
  /\ UNCHANGED <<now, ticks, rateLimitMap, requestCache, windowChecks, started,
                 server, airportCache, calc>>

\* observer: how an attempt ended (the kind of its outcome, the class of
\* the status of a non-2xx answer)
OutcomeClass(o) ==
  IF o.kind /= "http" THEN o.kind
  ELSE IF o.status = 429 THEN "429"
  ELSE IF o.status >= 500 THEN "5xx"
  ELSE "4xx"

\* the fetch of the current attempt settles with outcome o (uniform records
\* the class of the outcomes so far when they are all of one class)
FetchRespond(p, o) ==
  /\ proc[p].pc = "fetch"
  /\ o.kind = "abort" => now >= proc[p].sentAt + REQUEST_TIMEOUT
  /\ proc' = [proc EXCEPT ![p] =
        AfterFetch([@ EXCEPT !.last = Some(o),
                             !.uniform = IF @ \in {"none", OutcomeClass(o)}
                                         THEN OutcomeClass(o) ELSE "mixed",
                             !.onlyRetryable =
                                @ /\ o.kind = "http" /\ Retryable(o.status)], o)]
  /\ requestCache' = CacheAfterFetch(proc[p], o)
  /\ UNCHANGED <<now, ticks, cachedToken, rateLimitMap, windowChecks, started,
                 server, airportCache, calc>>

\* the backoff timer fires and the loop sends the next attempt
BackoffWake(p) ==
  /\ proc[p].pc = "backoff"
  /\ now >= proc[p].wakeAt
  /\ proc' = [proc EXCEPT ![p] =
        SendAttempt([@ EXCEPT !.wakeAt = 0], @.attempt + 1, Val(@.token))]
  /\ UNCHANGED <<now, ticks, cachedToken, rateLimitMap, requestCache, windowChecks,
                 started, server, airportCache, calc>>

\* ------------------------------------------------------------------------
\* GET /api/airports (part_000:471-622)
\* ------------------------------------------------------------------------
\* entries of the data array of the locations endpoint
UpJFK == [iataCode |-> JFK, name |-> <<"A", "J", "F", "K">>, cityName |-> Some(JFK)]
UpNoCode == [iataCode |-> <<>>, name |-> LHR, cityName |-> None]
UpLHR == [iataCode |-> LHR, name |-> LHR, cityName |-> None]
AirportPayloads == {<<>>, <<UpJFK>>, <<UpNoCode, UpLHR, UpJFK>>}

\* the Airport the client makes of an entry (countryCode is left out)
ToAirport(u) ==
  [iataCode |-> u.iataCode, name |-> u.name,
   city |-> IF IsSome(u.cityName) THEN Val(u.cityName) ELSE <<>>]

\* what searchAirports returns for the payload: entries with a code, mapped
HasCode(u) == u.iataCode /= <<>>
SearchAirportsResult(data) ==
  [i \in 1..Len(SelectSeq(data, HasCode)) |-> ToAirport(SelectSeq(data, HasCode)[i])]

\* what getAirport returns: the first entry mapped, None (null) when the
\* request failed or the array is empty
GetAirportResult(r) ==
  IF r.error = <<>> /\ IsSome(r.data) /\ Val(r.data) /= <<>>
  THEN Some(ToAirport(Head(Val(r.data))))
  ELSE None

\* results.map(({ score, ...airport }) => airport)
StripScores(results) == [i \in 1..Len(results) |-> results[i].airport]

\* mutant of AirportsErrorStatus: every other error is answered 500
AirportsErrorStatusHardFail(errorMessage) ==
  IF Includes(errorMessage, "Rate limit") THEN 429
  ELSE IF Includes(errorMessage, "timeout") THEN 504
  ELSE 500

\* airports route: status chosen from the message of the caught error (0:
\* the error is swallowed and the handler goes on with no airports)
AirportsErrorStatus(errorMessage) ==
  IF Includes(errorMessage, "Rate limit") THEN 429
  ELSE IF Includes(errorMessage, "timeout") THEN 504
  ELSE 0

\* variant: the handler stores whatever it answers
AirportsFinishStoresAll(p, r, airports) ==
  LET results == normalizeAndScoreAirports(airports, r.rquery, r.rlimit)
  IN /\ airportCache' =
          MapSet(airportCache, AirportCacheKey(r.rquery, r.rlimit),
                 [results |-> StripScores(results), timestamp |-> now])
     /\ proc' = [proc EXCEPT ![p] =
            [r EXCEPT !.pc = "done", !.status = 200, !.airports = airports,
                      !.results = Some(StripScores(results))]]

\* the handler has its airports: score, cache when not empty, respond 200
AirportsFinish(p, r, airports) ==
  LET results == normalizeAndScoreAirports(airports, r.rquery, r.rlimit)
  IN /\ airportCache' =
          IF Len(results) > 0
          THEN MapSet(airportCache, AirportCacheKey(r.rquery, r.rlimit),
                      [results |-> StripScores(results), timestamp |-> now])
          ELSE airportCache
     /\ proc' = [proc EXCEPT ![p] =
            [r EXCEPT !.pc = "done", !.status = 200, !.airports = airports,
                      !.results = Some(StripScores(results))]]

\* GET /api/airports with raw query q, up to the first await
GetAirports(p, q) ==
  /\ proc[p].pc \in {"idle", "done"}
  /\ LET parseResult == parseAirportParams(q)
         base == [IdleProc EXCEPT !.route = "airports", !.query = Some(q)]
     IN IF ~parseResult.valid
        THEN /\ proc' = [proc EXCEPT ![p] =
                    [base EXCEPT !.pc = "done", !.status = 400, !.outcome = "invalid",
                                 !.details = parseResult.errors]]
             /\ started' = IF started < MaxRequests THEN started + 1 ELSE started
             /\ UNCHANGED <<now, ticks, cachedToken, rateLimitMap, requestCache,
                            windowChecks, server, airportCache, calc>>
        ELSE LET query == Val(parseResult.data).q
                 limit == Val(parseResult.data).limit
                 cacheKey == AirportCacheKey(query, limit)
                 call == [base EXCEPT !.rquery = query, !.rlimit = limit]
             IN /\ started' = IF started < MaxRequests THEN started + 1 ELSE started
                /\ UNCHANGED airportCache
                /\ IF /\ cacheKey \in DOMAIN airportCache
                      /\ now - airportCache[cacheKey].timestamp < AIRPORT_CACHE_TTL
                   THEN /\ proc' = [proc EXCEPT ![p] =
                               [call EXCEPT !.pc = "done", !.status = 200,
                                            !.fromCache = TRUE,
                                            !.results = Some(airportCache[cacheKey].results)]]
                        /\ UNCHANGED <<now, ticks, cachedToken, rateLimitMap,
                                       requestCache, windowChecks, server, calc>>
                   ELSE IF isIATACode(query)
                   THEN RequestCall(p, [call EXCEPT
                            !.op = "getAirport",
                            !.endpoint = AirportEndpoint(toUpperCase(query))])
                   ELSE RequestCall(p, [call EXCEPT
                            !.op = "searchAirports",
                            !.endpoint = AirportsEndpoint(query)])

\* the airports handler resumes after await client.getAirport(...) or
\* await client.searchAirports(...)
AirportsResume(p) ==
  /\ proc[p].pc = "resume"
  /\ UNCHANGED started
  /\ LET r == proc[p]
         found == GetAirportResult(r)
         status == AirportsErrorStatus(OpMessage("searchAirports", r.error))
     IN IF r.op = "getAirport"
        THEN IF IsSome(found)
             THEN /\ AirportsFinish(p, [r EXCEPT !.lookup = "found", !.lookupGate = r.gate],
                                    <<Val(found)>>)
                  /\ UNCHANGED <<now, ticks, cachedToken, rateLimitMap, requestCache,
                                 windowChecks, server, calc>>
             ELSE /\ RequestCall(p, [IdleProc EXCEPT
                        !.route = "airports", !.query = r.query,
                        !.rquery = r.rquery, !.rlimit = r.rlimit,
                        !.lookup = "null", !.lookupGate = r.gate,
                        !.op = "searchAirports",
                        !.endpoint = AirportsEndpoint(r.rquery)])
                  /\ UNCHANGED airportCache
        ELSE /\ UNCHANGED <<now, ticks, cachedToken, rateLimitMap, requestCache,
                            windowChecks, server, calc>>
             /\ IF r.error = <<>>
                THEN AirportsFinish(p, r, SearchAirportsResult(Val(r.data)))
                ELSE IF status /= 0
                THEN /\ proc' = [proc EXCEPT ![p] = [r EXCEPT !.pc = "done", !.status = status]]
                     /\ UNCHANGED airportCache
                ELSE AirportsFinish(p, r, <<>>)

\* ------------------------------------------------------------------------
\* Calls of the pure functions
\* ------------------------------------------------------------------------
\* the sequences over S of length up to n
SeqsUpTo(S, n) == UNION {[1..k -> S] : k \in 0..n}

\* flights as normalizeFlightOffer makes them (stops = segments - 1; duration
\* is the duration of the itinerary, layovers included)
Segment(minutes) == [duration |-> DurationOf(minutes)]
FlightDirect ==
  [id |-> "1", price |-> 100, stops |-> 0, airlines |-> <<"AA">>,
   departure |-> [day |-> 1, hour |-> 8], arrival |-> [day |-> 1, hour |-> 10],
   duration |-> DurationOf(120), segments |-> <<Segment(120)>>, cabin |-> "ECONOMY"]
FlightOneStop ==
  [id |-> "2", price |-> 80, stops |-> 1, airlines |-> <<"BA", "AA">>,
   departure |-> [day |-> 1, hour |-> 22], arrival |-> [day |-> 2, hour |-> 6],
   duration |-> DurationOf(480), segments |-> <<Segment(60), Segment(180)>>,
   cabin |-> "ECONOMY"]
FlightTwoStops ==
  [id |-> "3", price |-> 100, stops |-> 2, airlines |-> <<"UA">>,
   departure |-> [day |-> 1, hour |-> 6], arrival |-> [day |-> 1, hour |-> 20],
   duration |-> DurationOf(840),
   segments |-> <<Segment(240), Segment(60), Segment(120)>>, cabin |-> "BUSINESS"]
FlightThreeStops ==
  [id |-> "4", price |-> 60, stops |-> 3, airlines |-> <<"UA">>,
   departure |-> [day |-> 1, hour |-> 0], arrival |-> [day |-> 1, hour |-> 23],
   duration |-> DurationOf(900),
   segments |-> <<Segment(90), Segment(60), Segment(60), Segment(60)>>,
   cabin |-> "ECONOMY"]
Flights == {FlightDirect, FlightOneStop, FlightTwoStops, FlightThreeStops}

\* the filter state the filter panel resets to (search-form.tsx:1181-1193)
NoopFilters ==
  [minPrice |-> Some(0), maxPrice |-> Some(10000), maxStops |-> Some(2),
   selectedAirlines |-> <<>>,
   departureTimeRange |-> Some([start |-> 0, end |-> 24]),
   arrivalTimeRange |-> Some([start |-> 0, end |-> 24]),
   maxDuration |-> Some(1440), cabins |-> <<>>]
\* the empty Partial<FilterState>
EmptyFilters ==
  [minPrice |-> None, maxPrice |-> None, maxStops |-> None,
   selectedAirlines |-> <<>>, departureTimeRange |-> None,
   arrivalTimeRange |-> None, maxDuration |-> None, cabins |-> <<>>]
FilterStates ==
  {NoopFilters, EmptyFilters}
    \cup {[NoopFilters EXCEPT !.maxStops = Some(n)] : n \in {0, 1}}
    \cup {[EmptyFilters EXCEPT !.maxDuration = Some(m)] : m \in {60, 120, 480, 840}}
    \cup {[NoopFilters EXCEPT !.selectedAirlines = <<"AA">>],
          [NoopFilters EXCEPT !.cabins = <<"BUSINESS">>],
          [NoopFilters EXCEPT !.minPrice = Some(80), !.maxPrice = Some(90)],
          [NoopFilters EXCEPT !.departureTimeRange = Some([start |-> 22, end |-> 6])]}
SortKeys == {"price", "duration", "departure", "arrival", "stops"}
SortOrders == {"asc", "desc"}

\* the arguments of one call of applyFilters and of sortFlights
FilterCalls ==
  [fn : {"none"}, flights : SeqsUpTo(Flights, MaxFlights), filters : FilterStates,
   sortBy : SortKeys, order : SortOrders, out : {None}]

\* applyFilters(flights, filters) is called
ApplyFilters ==
  /\ calc.fn = "none"
  /\ calc' = [calc EXCEPT !.fn = "applyFilters",
                          !.out = Some(applyFilters(calc.flights, calc.filters))]
  /\ UNCHANGED <<now, ticks, cachedToken, rateLimitMap, requestCache, windowChecks,
                 started, proc, server, airportCache>>

\* sortFlights(flights, sortBy, order) is called
SortFlights ==
  /\ calc.fn = "none"
  /\ calc' = [calc EXCEPT !.fn = "sortFlights",
                          !.out = Some(sortFlights(calc.flights, calc.sortBy, calc.order))]
  /\ UNCHANGED <<now, ticks, cachedToken, rateLimitMap, requestCache, windowChecks,
                 started, proc, server, airportCache>>

\* candidate airports as the client hands them to the route
Airport(code, name, city) == [iataCode |-> code, name |-> name, city |-> city]
Candidates ==
  {Airport(JFK, <<"A", "J", "F", "K">>, LHR),
   Airport(LHR, LHR, <<"J", "F", "K", "A">>),
   Airport(<<"J", "F", "L">>, LHR, <<>>),
   Airport(<<"H", "L", "R">>, <<"J", "A", "A", "K">>, <<"J", "A", "A", "K">>),
   Airport(<<"A", "A", "A">>, <<"A", "J", "F", "K">>, <<>>),
   Airport(<<"K", "K", "K">>, <<"K", "J", "F", "K">>, <<"H">>)}
ScoreQueries == {JFK, <<"j", "f", "k">>, <<"J", "F">>}

\* the arguments of one call of normalizeAndScoreAirports
ScoreCalls ==
  [fn : {"none"}, airports : SeqsUpTo(Candidates, MaxCandidates),
   query : ScoreQueries, limit : 1..MaxCandidates, out : {None}]

\* the tail of the airports handler: the airports are scored and the
\* response data is results.map(({ score, ...airport }) => airport)
ScoreAirports ==
  /\ calc.fn = "none"
  /\ calc' = [calc EXCEPT
        !.fn = "normalizeAndScoreAirports",
        !.out = Some(StripScores(
                   normalizeAndScoreAirports(calc.airports, calc.query, calc.limit)))]
  /\ UNCHANGED <<now, ticks, cachedToken, rateLimitMap, requestCache, windowChecks,
                 started, proc, server, airportCache>>

\* the arguments of one call of fuzzyScore
FuzzyChars == {"J", "j", "K"}
FuzzyCalls ==
  [fn : {"none"}, needle : SeqsUpTo(FuzzyChars, MaxStr),
   haystack : SeqsUpTo(FuzzyChars, MaxStr), out : {None}]

\* one call of fuzzyScore(needle, haystack)
FuzzyScore ==
  /\ calc.fn = "none"
  /\ calc' = [calc EXCEPT !.fn = "fuzzyScore",
                          !.out = Some(fuzzyScore(calc.needle, calc.haystack))]
  /\ UNCHANGED <<now, ticks, cachedToken, rateLimitMap, requestCache, windowChecks,
                 started, proc, server, airportCache>>

\* DELETE /api/airports: the airport cache is cleared (calc holds the
\* response: status, the number of entries the message reports, and the rank
\* of the request among the DELETE requests)
DeleteAirports ==
  /\ IF calc = None THEN TRUE ELSE calc.count < MaxDeletes
  /\ calc' = [fn |-> "DELETE", status |-> 200,
              cleared |-> Cardinality(DOMAIN airportCache),
              count |-> IF calc = None THEN 1 ELSE calc.count + 1]
  /\ airportCache' = <<>>
  /\ UNCHANGED <<now, ticks, cachedToken, rateLimitMap, requestCache, windowChecks,
                 started, proc, server>>

\* ------------------------------------------------------------------------
\* useCompareBar (compare-bar.tsx:436-480)
\* ------------------------------------------------------------------------
\* flights that can be pinned: two of them can carry the same id (the same
\* offer in two result lists)
CompareIds == {"f1", "f2", "f3", "f4", "f5"}
CompareFlights == [id : CompareIds, price : {1, 2}]

\* prev.some((f) => f.id === flightId)
SomeWithId(prev, flightId) == \E i \in 1..Len(prev) : prev[i].id = flightId

\* variant: the updater of addFlight without the test for duplicates
addFlightAllowsDuplicates(prev, flight, maxPinnedFlights) ==
  IF Len(prev) >= maxPinnedFlights THEN Tail(prev) \o <<flight>>
  ELSE prev \o <<flight>>

\* the updater addFlight hands to setPinnedFlights
addFlight(prev, flight, maxPinnedFlights) ==
  IF SomeWithId(prev, flight.id) THEN prev
  ELSE IF Len(prev) >= maxPinnedFlights THEN SubSeq(prev, 2, Len(prev)) \o <<flight>>
  ELSE prev \o <<flight>>

\* the updater removeFlight hands to setPinnedFlights
removeFlight(prev, flightId) ==
  LET keep(flight) == flight.id /= flightId
  IN SelectSeq(prev, keep)

\* the hook after useCompareBar(maxPinnedFlights): nothing pinned (last is
\* the call made last and, as an observer, the flights it took off the list)
CompareBars ==
  [fn : {"useCompareBar"}, maxPinnedFlights : 1..MaxPinned, pinnedFlights : {<<>>},
   last : {[fn |-> "none", dropped |-> {}]}]

AddFlight(flight) ==
  /\ calc' = [calc EXCEPT
        !.pinnedFlights = addFlight(@, flight, calc.maxPinnedFlights),
        !.last = [fn |-> "addFlight", flight |-> flight,
                  dropped |-> {calc.pinnedFlights[i] : i \in 1..Len(calc.pinnedFlights)}
                              \ {f \in CompareFlights :
                                   SomeWithId(addFlight(calc.pinnedFlights, flight,
                                                        calc.maxPinnedFlights), f.id)}]]
  /\ UNCHANGED <<now, ticks, cachedToken, rateLimitMap, requestCache, windowChecks,
                 started, proc, server, airportCache>>

RemoveFlight(flightId) ==
  /\ calc' = [calc EXCEPT
        !.pinnedFlights = removeFlight(@, flightId),
        !.last = [fn |-> "removeFlight", flightId |-> flightId,
                  dropped |-> {calc.pinnedFlights[i] : i \in 1..Len(calc.pinnedFlights)}
                              \ {f \in CompareFlights :
                                   SomeWithId(removeFlight(calc.pinnedFlights, flightId), f.id)}]]
  /\ UNCHANGED <<now, ticks, cachedToken, rateLimitMap, requestCache, windowChecks,
                 started, proc, server, airportCache>>

ClearAll ==
  /\ calc' = [calc EXCEPT
        !.pinnedFlights = <<>>,
        !.last = [fn |-> "clearAll",
                  dropped |-> {calc.pinnedFlights[i] : i \in 1..Len(calc.pinnedFlights)}]]
  /\ UNCHANGED <<now, ticks, cachedToken, rateLimitMap, requestCache, windowChecks,
                 started, proc, server, airportCache>>

\* time passes (behaviours of the routes)
Wait(d) ==
  /\ ticks < MaxWaits
  /\ now' = now + d
  /\ ticks' = ticks + 1
  /\ UNCHANGED <<cachedToken, rateLimitMap, requestCache, windowChecks, started, proc,
                 server, airportCache, calc>>

\* ------------------------------------------------------------------------
\* Specifications
\* ------------------------------------------------------------------------
\* Spec: the gateway under every upstream outcome.  Requests are issued one
\* after the other; the clock moves in steps that reach the backoff delays
\* and the attempt deadline, as long as a request is running or can start.
RetrySteps == {1000, 30000}
Busy(p) == proc[p].pc \notin {"idle", "done"}
Next ==
  \/ (started < MaxRequests \/ Busy("r1")) /\ \E d \in RetrySteps : Tick(d)
  \/ started < MaxRequests /\ \E q \in SomeFlightQueries : GetFlights("r1", q)
  \/ started < MaxRequests /\ \E c \in AirportKeywords : GetAirport("r1", c)
  \/ \E o \in AuthOutcomes : AuthRespond("r1", o)
  \/ \E o \in ApiOutcomes : FetchRespond("r1", o)
  \/ BackoffWake("r1")

Spec == Init /\ [][Next]_vars

\* SpecTtl: the two lifetimes (request cache, token).  Data endpoints answer
\* 2xx; the clock moves in steps that reach both sides of each boundary.
TtlSteps == {1000, 299000, 539000}
OkApiOutcomes == {o \in ApiOutcomes : o.kind = "ok"}
NextTtl ==
  \/ (started < MaxRequests \/ Busy("r1")) /\ \E d \in TtlSteps : Tick(d)
  \/ started < MaxRequests /\ \E q \in {DefaultQuery} :
        GetFlights("r1", q)
  \/ started < MaxRequests /\ \E c \in AirportKeywords : GetAirport("r1", c)
  \/ \E o \in AuthOutcomes : AuthRespond("r1", o)
  \/ \E o \in OkApiOutcomes : FetchRespond("r1", o)

SpecTtl == Init /\ [][NextTtl]_vars

\* SpecGate: the rate-limit gate.  Any number of requests; the clock moves in
\* steps that reach both sides of the reset instant.
GateSteps == {1000, 59000}
GateAuthOutcomes == {o \in AuthOutcomes : o.kind = "ok" \/ (o.kind = "http" /\ o.status = 401)}
GateApiOutcomes == {o \in ApiOutcomes : o.kind = "ok" /\ o.data = OffersA}
NextGate ==
  \/ \E d \in GateSteps : Tick(d)
  \/ \E q \in {DefaultQuery} : GetFlights("r1", q)
  \/ \E k \in AirportKeywords : SearchAirports("r1", k)
  \/ \E o \in GateAuthOutcomes : AuthRespond("r1", o)
  \/ \E o \in GateApiOutcomes : FetchRespond("r1", o)

SpecGate == Init /\ [][NextGate]_vars

\* SpecValid: validation at the two routes.  The server starts at any hour of
\* the day in any of the timezones; every raw query is sent; the upstream
\* servers answer 2xx.
ValidApiOutcomes(op) ==
  IF op = "flights" THEN {o \in ApiOutcomes : o.kind = "ok" /\ o.data = OffersA}
  ELSE [kind : {"ok"}, data : {<<>>, <<UpJFK>>}]
InitValid ==
  /\ now = 0
  /\ ticks = 0
  /\ cachedToken = None
  /\ rateLimitMap = <<>>
  /\ requestCache = <<>>
  /\ windowChecks = [checks |-> 0, resetAt |-> 0, prev |-> 0]
  /\ started = 0
  /\ proc = [p \in Procs |-> IdleProc]
  /\ server \in ServerClocks
  /\ airportCache = <<>>
  /\ calc = None
NextValid ==
  \/ started < MaxRequests /\ \E q \in FlightQueries : GetFlights("r1", q)
  \/ started < MaxRequests /\ \E q \in AirportQueries : GetAirports("r1", q)
  \/ \E o \in {a \in AuthOutcomes : a.kind = "ok"} : AuthRespond("r1", o)
  \/ \E o \in ValidApiOutcomes(proc["r1"].op) : FetchRespond("r1", o)
  \/ AirportsResume("r1")

SpecValid == InitValid /\ [][NextValid]_vars

\* SpecRoutes: how the two routes answer when the gateway fails.  The window
\* of the rate limiter is fresh or was used up by earlier requests whose
\* credential exchange failed; the clock moves in steps of the attempt
\* deadline.
RouteSteps == {30000}
RouteApiOutcomes(op) ==
  {o \in ApiOutcomes : o.kind = "abort" \/ (o.kind = "http" /\ o.status = 429 /\ o.env = EnvDetail)}
    \cup (IF op = "flights"
          THEN {o \in ApiOutcomes : o.kind = "ok" /\ o.data = OffersA}
          ELSE [kind : {"ok"}, data : {<<>>, <<UpJFK>>}])
RouteAirportQueries == {q \in AirportQueries : q.q \in {JFK, <<"j", "f", "k">>} /\ q.limit = <<>>}
UsedUpWindow == [x \in {"global"} |-> [requestCount |-> RATE_LIMIT, resetTime |-> RATE_LIMIT_WINDOW]]
InitRoutes ==
  /\ now = 0
  /\ ticks = 0
  /\ cachedToken = None
  /\ \/ /\ rateLimitMap = <<>>
        /\ windowChecks = [checks |-> 0, resetAt |-> 0, prev |-> 0]
     \/ /\ rateLimitMap = UsedUpWindow
        /\ windowChecks = [checks |-> RATE_LIMIT, resetAt |-> RATE_LIMIT_WINDOW, prev |-> 0]
  /\ requestCache = <<>>
  /\ started = 0
  /\ proc = [p \in Procs |-> IdleProc]
  /\ server = DefaultClock
  /\ airportCache = <<>>
  /\ calc = None
NextRoutes ==
  \/ (started < MaxRequests \/ Busy("r1")) /\ \E d \in RouteSteps : Wait(d)
  \/ started < MaxRequests /\ \E q \in {DefaultQuery} : GetFlights("r1", q)
  \/ started < MaxRequests /\ \E q \in RouteAirportQueries : GetAirports("r1", q)
  \/ \E o \in AuthOutcomes : AuthRespond("r1", o)
  \/ \E o \in RouteApiOutcomes(proc["r1"].op) : FetchRespond("r1", o)
  \/ BackoffWake("r1")
  \/ AirportsResume("r1")

SpecRoutes == InitRoutes /\ [][NextRoutes]_vars

\* SpecFilters: one call of applyFilters or of sortFlights on every list of
\* flights and every filter state
InitFilters ==
  /\ now = 0
  /\ ticks = 0
  /\ cachedToken = None
  /\ rateLimitMap = <<>>
  /\ requestCache = <<>>
  /\ windowChecks = [checks |-> 0, resetAt |-> 0, prev |-> 0]
  /\ started = 0
  /\ proc = [p \in Procs |-> IdleProc]
  /\ server = DefaultClock
  /\ airportCache = <<>>
  /\ calc \in FilterCalls
NextFilters == ApplyFilters \/ SortFlights

SpecFilters == InitFilters /\ [][NextFilters]_vars

\* SpecScore: one call of normalizeAndScoreAirports on every list of
\* candidates, query and limit
InitScore ==
  /\ now = 0
  /\ ticks = 0
  /\ cachedToken = None
  /\ rateLimitMap = <<>>
  /\ requestCache = <<>>
  /\ windowChecks = [checks |-> 0, resetAt |-> 0, prev |-> 0]
  /\ started = 0
  /\ proc = [p \in Procs |-> IdleProc]
  /\ server = DefaultClock
  /\ airportCache = <<>>
  /\ calc \in ScoreCalls
NextScore == ScoreAirports

SpecScore == InitScore /\ [][NextScore]_vars

\* SpecFuzzy: one call of fuzzyScore on every pair of strings
InitFuzzy ==
  /\ now = 0
  /\ ticks = 0
  /\ cachedToken = None
  /\ rateLimitMap = <<>>
  /\ requestCache = <<>>
  /\ windowChecks = [checks |-> 0, resetAt |-> 0, prev |-> 0]
  /\ started = 0
  /\ proc = [p \in Procs |-> IdleProc]
  /\ server = DefaultClock
  /\ airportCache = <<>>
  /\ calc \in FuzzyCalls
NextFuzzy == FuzzyScore

SpecFuzzy == InitFuzzy /\ [][NextFuzzy]_vars

\* SpecCache: the airport cache.  Airports requests and DELETE requests come
\* in any order, a DELETE also while a request waits for the gateway; the
\* credential exchange succeeds and the locations endpoint answers with
\* airports, with none, or with an error; the clock moves in steps that reach
\* both sides of the lifetime of an entry.
CacheSteps == {1, AIRPORT_CACHE_TTL - 1}
CacheAuthOutcomes == {o \in AuthOutcomes : o.kind = "ok"}
CacheApiOutcomes ==
  [kind : {"ok"}, data : {<<>>, <<UpJFK>>}]
    \cup {o \in ApiOutcomes : o.kind = "http" /\ o.status = 400 /\ o.env = EnvDetail}
CacheAirportQueries ==
  {q \in AirportQueries :
     \/ q.q = JFK /\ q.limit = <<>>
     \/ q.q = <<"j", "f", "k">> /\ q.limit \in {<<>>, <<"2">>}}
NextCache ==
  \/ ticks < MaxAges /\ \E d \in CacheSteps : Wait(d)
  \/ started < MaxRequests /\ \E q \in CacheAirportQueries : GetAirports("r1", q)
  \/ \E o \in CacheAuthOutcomes : AuthRespond("r1", o)
  \/ \E o \in CacheApiOutcomes : FetchRespond("r1", o)
  \/ AirportsResume("r1")
  \/ DeleteAirports

SpecCache == Init /\ [][NextCache]_vars

\* SpecDegrade: the airports route on a failing gateway.  The credential
\* exchange and the locations endpoint fail in every way or answer; the
\* clock moves, while a request is running, in steps of the attempt deadline.
DegradeApiOutcomes ==
  [kind : {"ok"}, data : {<<>>, <<UpJFK>>}]
    \cup {o \in ApiOutcomes : \/ o.kind \in {"network", "badjson", "abort"}
                             \/ (o.kind = "http" /\ o.env = EnvDetail)}
DegradeAirportQueries ==
  {q \in AirportQueries : q.q \in {JFK, <<"J", "F">>} /\ q.limit = <<>>}
NextDegrade ==
  \/ Busy("r1") /\ \E d \in RouteSteps : Wait(d)
  \/ started < MaxRequests /\ \E q \in DegradeAirportQueries : GetAirports("r1", q)
  \/ \E o \in AuthOutcomes : AuthRespond("r1", o)
  \/ \E o \in DegradeApiOutcomes : FetchRespond("r1", o)
  \/ BackoffWake("r1")
  \/ AirportsResume("r1")

SpecDegrade == Init /\ [][NextDegrade]_vars

\* SpecConc: two logical requests on the one client, their steps interleaved
\* in every order the event loop allows.  The window of the rate limiter is
\* fresh or has one permit left (used by earlier requests whose credential
\* exchange failed); every credential exchange succeeds; the clock moves,
\* while a request is running, in steps of the first backoff delay.
ConcSteps == {1000}
OnePermitLeft ==
  [x \in {"global"} |-> [requestCount |-> RATE_LIMIT - 1, resetTime |-> RATE_LIMIT_WINDOW]]
ConcAuthOutcomes == {o \in AuthOutcomes : o.kind = "ok"}
ConcApiOutcomes == {o \in ApiOutcomes : (o.kind = "ok" /\ o.data = OffersA) \/ o.kind = "network"}
InitConc ==
  /\ now = 0
  /\ ticks = 0
  /\ cachedToken = None
  /\ \/ /\ rateLimitMap = <<>>
        /\ windowChecks = [checks |-> 0, resetAt |-> 0, prev |-> 0]
     \/ /\ rateLimitMap = OnePermitLeft
        /\ windowChecks = [checks |-> RATE_LIMIT - 1, resetAt |-> RATE_LIMIT_WINDOW, prev |-> 0]
  /\ requestCache = <<>>
  /\ started = 0
  /\ proc = [p \in Procs |-> IdleProc]
  /\ server = DefaultClock
  /\ airportCache = <<>>
  /\ calc = None
NextConc ==
  \/ (\E p \in Procs : Busy(p)) /\ \E d \in ConcSteps : Tick(d)
  \/ \E p \in Procs :
       \/ started < MaxRequests /\ \E q \in {DefaultQuery} : GetFlights(p, q)
       \/ started < MaxRequests /\ \E k \in AirportKeywords : SearchAirports(p, k)
       \/ started < MaxRequests /\ \E c \in AirportKeywords : GetAirport(p, c)
       \/ \E o \in ConcAuthOutcomes : AuthRespond(p, o)
       \/ \E o \in ConcApiOutcomes : FetchRespond(p, o)
       \/ BackoffWake(p)

SpecConc == InitConc /\ [][NextConc]_vars

\* SpecExpiry: a token that is close to the refresh instant when a request
\* picks it up.  The clock moves in steps that reach the last instant at
\* which getToken still returns the cached token, the attempt deadline and
\* the two backoff delays, and never passes the instant at which a pending
\* timer (the abort of fetchWithTimeout, the sleep of the backoff) fires;
\* attempts are answered 2xx or not at all.
TimersAllow(d) ==
  \A p \in Procs :
    /\ proc[p].pc = "fetch" => now + d <= proc[p].sentAt + REQUEST_TIMEOUT
    /\ proc[p].pc = "backoff" => now + d <= proc[p].wakeAt
ExpirySteps == {ExpiresIn * 1000 - TOKEN_BUFFER - 1000, REQUEST_TIMEOUT,
                BackoffDelay(0), BackoffDelay(1)}
ExpiryAuthOutcomes == {o \in AuthOutcomes : o.kind = "ok"}
ExpiryApiOutcomes ==
  {o \in ApiOutcomes : \/ o.kind = "ok" /\ o.data = OffersA
                       \/ o.kind = "abort"}
NextExpiry ==
  \/ (started < MaxRequests \/ Busy("r1")) /\ \E d \in ExpirySteps : TimersAllow(d) /\ Wait(d)
  \/ started < MaxRequests /\ \E q \in {DefaultQuery} : GetFlights("r1", q)
  \/ \E o \in ExpiryAuthOutcomes : AuthRespond("r1", o)
  \/ \E o \in ExpiryApiOutcomes : FetchRespond("r1", o)
  \/ BackoffWake("r1")

SpecExpiry == Init /\ [][NextExpiry]_vars

\* SpecLive: progress of the calls.  The only events are the answers of the
\* upstream servers and the timers the client arms; the clock moves to the
\* instant of the next pending timer.  getToken arms no timer, so nothing is
\* pending while a call waits for the credential exchange.
Deadline(p) ==
  IF proc[p].pc = "fetch" THEN proc[p].sentAt + REQUEST_TIMEOUT ELSE proc[p].wakeAt
PendingTimers ==
  {p \in Procs : proc[p].pc \in {"fetch", "backoff"} /\ now < Deadline(p)}
Elapse ==
  /\ PendingTimers /= {}
  /\ \E p \in PendingTimers :
       /\ \A q \in PendingTimers : Deadline(p) <= Deadline(q)
       /\ now' = Deadline(p)
  /\ UNCHANGED <<ticks, cachedToken, rateLimitMap, requestCache, windowChecks, started,
                 proc, server, airportCache, calc>>

Aborted == [kind |-> "abort"]
LiveAuthOutcomes == {o \in AuthOutcomes : o.kind \in {"ok", "network"}}
LiveApiOutcomes ==
  {o \in ApiOutcomes : \/ o.kind = "ok" /\ o.data = OffersA
                       \/ o.kind = "abort"}
NextLive ==
  \/ Elapse
  \/ \E p \in Procs :
       \/ started < MaxRequests /\ \E q \in {DefaultQuery} : GetFlights(p, q)
       \/ \E o \in LiveAuthOutcomes : AuthRespond(p, o)
       \/ \E o \in LiveApiOutcomes : FetchRespond(p, o)
       \/ BackoffWake(p)

\* the timers of the runtime fire: the clock reaches the next deadline, an
\* attempt that is past its deadline is aborted, a backoff that is over
\* ends.  Nothing obliges an upstream server to answer.
LiveFairness ==
  /\ WF_vars(Elapse)
  /\ \A p \in Procs : WF_vars(FetchRespond(p, Aborted))
  /\ \A p \in Procs : WF_vars(BackoffWake(p))

SpecLive == Init /\ [][NextLive]_vars /\ LiveFairness

\* SpecCompare: one compare bar, created with any maxPinnedFlights from 1 to
\* MaxPinned, under every sequence of calls of its three callbacks.
InitCompare ==
  /\ now = 0
  /\ ticks = 0
  /\ cachedToken = None
  /\ rateLimitMap = <<>>
  /\ requestCache = <<>>
  /\ windowChecks = [checks |-> 0, resetAt |-> 0, prev |-> 0]
  /\ started = 0
  /\ proc = [p \in Procs |-> IdleProc]
  /\ server = DefaultClock
  /\ airportCache = <<>>
  /\ calc \in CompareBars
NextCompare ==
  \/ \E flight \in CompareFlights : AddFlight(flight)
  \/ \E flightId \in CompareIds : RemoveFlight(flightId)
  \/ ClearAll

SpecCompare == InitCompare /\ [][NextCompare]_vars

\* ------------------------------------------------------------------------
\* Vocabulary of the properties
\* ------------------------------------------------------------------------
\* a request that went into request() (it was not stopped by validation)
InRequest(r) == r.pc /= "idle" /\ r.outcome /= "invalid"
\* a request that ended with request() throwing
Failed(r) == r.pc = "done" /\ r.error /= <<>>
\* outcomes after which the retry policy asks for another attempt
RetryableOutcome(o) ==
  \/ o.kind \in {"network", "abort"}
  \/ o.kind = "http" /\ (o.status = 429 \/ o.status >= 500)
\* a 4xx answer other than 429
ClientError(o) == o.kind = "http" /\ o.status >= 400 /\ o.status < 500 /\ o.status /= 429

\* ------------------------------------------------------------------------
\* C1
\* ------------------------------------------------------------------------
\* C1: in every window (opened by the first gate check at or after the last
\* reset instant) exactly the first RATE_LIMIT checks are permitted, each
\* raising the stored count to its rank in the window, and every further
\* check before the reset instant is rejected and leaves the window as it
\* is; the check that opens a window is permitted, stores count 1 and sets
\* the reset instant one window length ahead.
C1_RateLimitWindow ==
  [][windowChecks' /= windowChecks =>
       LET rank == windowChecks'.checks
           permitted == rank <= RATE_LIMIT
       IN /\ \E p \in Procs :
               /\ proc'[p].startedAt = now
               /\ proc'[p].gate = IF permitted THEN "pass" ELSE "reject"
          /\ permitted =>
               /\ "global" \in DOMAIN rateLimitMap'
               /\ rateLimitMap'["global"].requestCount = rank
               /\ rateLimitMap'["global"].resetTime = windowChecks'.resetAt
          /\ ~permitted => rateLimitMap' = rateLimitMap
          /\ rank = 1 => windowChecks'.resetAt = now + 60000]_vars

\* a window that saw a rejected check has ended, and the first check at or
\* after its reset instant was permitted and opened a window with count 1
C1_Witness ==
  /\ windowChecks.prev > RATE_LIMIT
  /\ windowChecks.checks = 1
  /\ proc["r1"].gate = "pass"
  /\ rateLimitMap["global"].requestCount = 1

\* ------------------------------------------------------------------------
\* C2
\* ------------------------------------------------------------------------
\* C2 as stated: every call that goes into request() passes the rate-limit
\* check first, so also a call answered from the cache has been counted.
C2_GateBeforeCache ==
  \A p \in Procs : InRequest(proc[p]) => proc[p].gate /= "none"

\* C2 amended: the cache lookup comes first.  A call that finds an entry
\* younger than CACHE_TTL is answered from it without a rate-limit check
\* (whatever the count of the window), and every other call is checked.
C2_CacheBeforeGate ==
  \A p \in Procs : InRequest(proc[p]) =>
    LET r == proc[p]
        fresh == IsSome(r.cached) /\ r.startedAt - Val(r.cached).timestamp < CACHE_TTL
    IN /\ fresh => r.gate = "none" /\ r.pc = "done" /\ r.outcome = "ok" /\ r.error = <<>>
       /\ ~fresh => r.gate /= "none"

\* a call answered from the cache while the quota of the window is used up
C2_Witness ==
  /\ proc["r1"].cacheHit
  /\ proc["r1"].pc = "done"
  /\ "global" \in DOMAIN rateLimitMap
  /\ rateLimitMap["global"].requestCount = RATE_LIMIT
  /\ proc["r1"].startedAt < rateLimitMap["global"].resetTime

\* ------------------------------------------------------------------------
\* C3
\* ------------------------------------------------------------------------
\* C3: once an attempt was answered with a 4xx status other than 429, the
\* request has failed with the formatted upstream error; it is neither in a
\* backoff wait nor in a further attempt.
C3_ClientErrorFailsAtOnce ==
  \A p \in Procs :
    (IsSome(proc[p].last) /\ ClientError(Val(proc[p].last))) =>
      /\ proc[p].pc = "done"
      /\ proc[p].error = formatError(Val(proc[p].last).env)

\* ------------------------------------------------------------------------
\* C4
\* ------------------------------------------------------------------------
\* C4: a request never makes more than 3 HTTP attempts; when an attempt ends
\* in 429, 5xx or a transport failure and fewer than 3 attempts were made,
\* the request sleeps 2^attempt seconds (1 s, then 2 s) and then sends the
\* next attempt, not before the delay is over.
C4_BoundedRetries ==
  [][\A p \in Procs :
       /\ proc'[p].httpCalls <= 3
       /\ (proc[p].pc = "fetch" /\ proc'[p].pc /= "fetch"
             /\ RetryableOutcome(Val(proc'[p].last))) =>
            IF proc[p].httpCalls < 3
            THEN /\ proc'[p].pc = "backoff"
                 /\ proc'[p].wakeAt = now + (2 ^ (proc[p].httpCalls - 1)) * 1000
                 /\ proc'[p].waits = Append(proc[p].waits,
                                            IF proc[p].httpCalls = 1 THEN 1000 ELSE 2000)
            ELSE proc'[p].pc = "done"
       /\ (proc[p].pc = "backoff" /\ proc'[p].pc /= "backoff") =>
            /\ now >= proc[p].wakeAt
            /\ proc'[p].pc = "fetch"
            /\ proc'[p].httpCalls = proc[p].httpCalls + 1]_vars

\* three attempts were made, with waits of 1 s and 2 s, the last one ending
\* in a retryable answer
C4_Witness ==
  /\ proc["r1"].httpCalls = 3
  /\ proc["r1"].waits = <<1000, 2000>>
  /\ proc["r1"].onlyRetryable
  /\ proc["r1"].pc = "done"

\* ------------------------------------------------------------------------
\* C5
\* ------------------------------------------------------------------------
\* C5: a request whose 3 attempts were all answered 429 or 5xx fails with
\* the message formatError extracts from the envelope of the last answer.
C5_LastUpstreamError ==
  \A p \in Procs :
    (proc[p].pc = "done" /\ proc[p].httpCalls = MAX_RETRIES
       /\ IsSome(proc[p].last) /\ proc[p].onlyRetryable) =>
      /\ Failed(proc[p])
      /\ proc[p].error = formatError(Val(proc[p].last).env)

\* ------------------------------------------------------------------------
\* C6
\* ------------------------------------------------------------------------
\* C6: the cache changes only when an attempt was answered 2xx with a
\* payload, and then exactly the entry of that request is set to the
\* payload; a step that ends a request in an error leaves the cache as it is.
C6_CacheOnlySuccess ==
  [][/\ \A p \in Procs :
          (proc[p].pc /= "done" /\ Failed(proc'[p])) => requestCache' = requestCache
     /\ requestCache' /= requestCache =>
          \E p \in Procs :
            /\ proc[p].pc = "fetch"
            /\ Val(proc'[p].last).kind = "ok"
            /\ proc'[p].error = <<>>
            /\ requestCache' = MapSet(requestCache, proc[p].endpoint,
                 [data |-> Val(proc'[p].last).data, timestamp |-> now])]_vars

\* a request failed on a non-2xx answer to its last attempt and its endpoint
\* has no cache entry
C6_Witness ==
  /\ Failed(proc["r1"])
  /\ proc["r1"].httpCalls = MAX_RETRIES
  /\ IsSome(proc["r1"].last)
  /\ Val(proc["r1"].last).kind = "http"
  /\ Val(proc["r1"].last).status = 500
  /\ proc["r1"].endpoint \notin DOMAIN requestCache

\* ------------------------------------------------------------------------
\* C7
\* ------------------------------------------------------------------------
\* C7: a request that finds an entry stored less than 5 minutes before is
\* answered with the entry's payload, with no credential exchange and no
\* upstream request; an entry of 5 minutes or more is handled like no entry
\* (the request goes to the gate and, once permitted, upstream), and a
\* success replaces it by the new payload with a new insertion instant.
C7_CacheTtl ==
  \A p \in Procs : InRequest(proc[p]) =>
    LET r == proc[p]
        fresh == IsSome(r.cached) /\ r.startedAt - Val(r.cached).timestamp < 300000
    IN /\ fresh => /\ r.cacheHit /\ r.pc = "done"
                   /\ r.data = Some(Val(r.cached).data)
                   /\ r.authCalls = 0 /\ r.httpCalls = 0
       /\ ~fresh => /\ ~r.cacheHit
                    /\ r.gate /= "none"
                    /\ r.gate = "pass" => r.authCalls + r.httpCalls >= 1
       /\ (~fresh /\ r.pc = "done" /\ r.outcome = "ok" /\ r.error = <<>>) =>
            /\ r.endpoint \in DOMAIN requestCache
            /\ requestCache[r.endpoint].data = Val(r.data)
            /\ requestCache[r.endpoint].timestamp >= r.startedAt

\* a request found an entry exactly 5 minutes old, went upstream and its
\* success replaced the entry
C7_Witness ==
  /\ IsSome(proc["r1"].cached)
  /\ proc["r1"].startedAt - Val(proc["r1"].cached).timestamp = 300000
  /\ proc["r1"].pc = "done" /\ proc["r1"].outcome = "ok" /\ proc["r1"].error = <<>>
  /\ proc["r1"].httpCalls = 1
  /\ requestCache[proc["r1"].endpoint].timestamp >= proc["r1"].startedAt

\* ------------------------------------------------------------------------
\* C8
\* ------------------------------------------------------------------------
\* C8 as stated: with a cached token of expiry e (= t0 + lifetime), a call
\* of getToken at an instant up to and including e - 60 s reuses it without
\* an exchange, and a call one second later or more makes an exchange.
C8_ReuseUpToBuffer ==
  \A p \in Procs :
    (proc[p].gate = "pass" /\ IsSome(proc[p].tokenSeen)) =>
      LET r == proc[p]
          e == Val(r.tokenSeen).expiresAt
      IN /\ r.startedAt <= e - 60000 =>
              r.authCalls = 0 /\ r.token = Some(Val(r.tokenSeen).token)
         /\ r.startedAt >= e - 60000 + 1000 => r.authCalls = 1

\* C8 amended: the token is reused without an exchange by every call made
\* strictly before e - 60 s; a call at e - 60 s or later makes an exchange.
C8_ReuseBeforeBuffer ==
  \A p \in Procs :
    (proc[p].gate = "pass" /\ IsSome(proc[p].tokenSeen)) =>
      LET r == proc[p]
          e == Val(r.tokenSeen).expiresAt
      IN /\ r.startedAt < e - 60000 =>
              /\ r.authCalls = 0 /\ r.exchange = "none"
              /\ r.token = Some(Val(r.tokenSeen).token)
         /\ r.startedAt >= e - 60000 => r.authCalls = 1

\* getToken was called exactly 60 s before the expiry of the cached token
\* and made a credential exchange
C8_Witness ==
  /\ proc["r1"].gate = "pass"
  /\ IsSome(proc["r1"].tokenSeen)
  /\ proc["r1"].startedAt = Val(proc["r1"].tokenSeen).expiresAt - 60000
  /\ proc["r1"].authCalls = 1

\* ------------------------------------------------------------------------
\* C9
\* ------------------------------------------------------------------------
\* C9: when the credential exchange settles with a non-success answer, an
\* unreadable body or a transport failure, the request ends in the auth
\* error without any upstream request and cachedToken is left as it was.
C9_FailedExchangeKeepsToken ==
  [][\A p \in Procs :
       (proc[p].pc = "auth" /\ proc'[p].exchange \notin {"none", "ok"}) =>
         /\ cachedToken' = cachedToken
         /\ Failed(proc'[p])
         /\ proc'[p].error[1] = "Amadeus auth error: "
         /\ proc'[p].httpCalls = 0]_vars

\* an exchange failed while an (expired) token was cached, and the token is
\* still the cached one
C9_Witness ==
  /\ proc["r1"].exchange \in {"http", "network"}
  /\ Failed(proc["r1"])
  /\ IsSome(cachedToken)
  /\ cachedToken = proc["r1"].tokenSeen

\* ------------------------------------------------------------------------
\* C10
\* ------------------------------------------------------------------------
\* C10: a GET /api/flights request whose departure and arrival are 3
\* letters in any case passes validation, and a 200 response carries the
\* uppercased arrival in meta.searchParams.
C10_CodesCaseInsensitive ==
  \A p \in Procs :
    LET r == proc[p]
        letters3(s) == Len(s) = 3 /\ \A i \in 1..Len(s) : s[i] \in UpperLetters \cup LowerLetters
    IN (r.op = "flights" /\ r.pc = "done"
          /\ letters3(Val(r.query).departure) /\ letters3(Val(r.query).arrival)) =>
         /\ r.outcome /= "invalid"
         /\ r.status = 200 => Val(r.params).arrival = toUpperCase(Val(r.query).arrival)

\* ------------------------------------------------------------------------
\* C11
\* ------------------------------------------------------------------------
\* C11: a GET /api/flights request with a code that is not 3 letters or a
\* count outside its range, and a GET /api/airports request with an empty q
\* or a limit outside 1..50, is answered 400 in the step that receives it,
\* without a rate-limit check, a credential exchange or an upstream request,
\* and the step leaves the rate-limit counter, the token and both caches as
\* they are.
C11_ValidationBeforeUpstream ==
  [][\A p \in Procs :
       LET r == proc'[p]
           q == Val(r.query)
           badFlights ==
             \/ q.arrival \in {<<"J", "F">>, <<"J", "F", "K", "1">>, <<"1", "2", "A">>, <<>>}
             \/ q.adults \in {<<"0">>, <<"1", "0">>, <<"x">>}
             \/ q.children \in {<<"9">>, <<"-", "1">>}
             \/ q.max \in {<<"2", "5", "1">>, <<"0">>}
           badAirports ==
             \/ q.q = <<>>
             \/ q.limit \in {<<"0">>, <<"5", "1">>, <<"x">>}
       IN (/\ proc[p].pc \in {"idle", "done"} /\ r /= proc[p] /\ IsSome(r.query)
           /\ IF r.route = "airports" THEN badAirports ELSE badFlights) =>
            /\ r.pc = "done" /\ r.status = 400
            /\ r.gate = "none" /\ r.authCalls = 0 /\ r.httpCalls = 0
            /\ rateLimitMap' = rateLimitMap
            /\ cachedToken' = cachedToken
            /\ requestCache' = requestCache
            /\ airportCache' = airportCache]_vars

\* an airports request with limit 51 was answered 400 while the window of
\* the rate limiter, the token and the request cache hold what an earlier
\* request left
C11_Witness ==
  /\ proc["r1"].route = "airports"
  /\ proc["r1"].pc = "done" /\ proc["r1"].status = 400
  /\ Val(proc["r1"].query).limit = <<"5", "1">>
  /\ proc["r1"].httpCalls = 0
  /\ "global" \in DOMAIN rateLimitMap
  /\ IsSome(cachedToken)
  /\ requestCache /= <<>>

\* ------------------------------------------------------------------------
\* C12
\* ------------------------------------------------------------------------
\* C12: a GET /api/flights request that is valid but for its departDate is
\* rejected exactly when the day of departDate lies before the current day
\* of the server, at every hour and in every timezone of the server.
C12_DepartDateByDay ==
  \A p \in Procs :
    LET r == proc[p]
        q == Val(r.query)
        currentDay == (WallNow + server.offset * HOUR_MS) \div DAY_MS
    IN (r.op = "flights" /\ r.pc /= "idle" /\ q \in DateQueries
          /\ q.departDate.kind = "date") =>
         (r.outcome = "invalid" <=> q.departDate.day < currentDay)

\* ------------------------------------------------------------------------
\* C13
\* ------------------------------------------------------------------------
\* C13: the 400 response to a GET /api/flights request whose departDate is
\* the day before the server started has a details entry for departDate.
C13_PastDateDetail ==
  \A p \in Procs :
    LET r == proc[p]
    IN (r.op = "flights" /\ r.pc = "done" /\ r.status = 400 /\ r.outcome = "invalid"
          /\ Val(r.query).departDate = DateOf(EpochDay - 1)) =>
         "departDate" \in r.details

\* ------------------------------------------------------------------------
\* C14
\* ------------------------------------------------------------------------
\* C14: the flight-offers query of a GET /api/flights request carries the
\* returnDate of the request when it has one and none otherwise, and carries
\* children exactly when the children count is not zero.
C14_ReturnDateForwarded ==
  \A p \in Procs :
    LET r == proc[p]
        q == Val(r.query)
        sent == r.endpoint[2]
    IN (r.op = "flights" /\ InRequest(r)) =>
         /\ sent.returnDate = q.returnDate
         /\ IsSome(sent.children) <=> q.children \notin {<<>>, <<"0">>}
         /\ q.children = <<"3">> => sent.children = Some(3)
         /\ q.children = <<"8">> => sent.children = Some(8)

\* ------------------------------------------------------------------------
\* C15
\* ------------------------------------------------------------------------
\* C15: a GET /api/flights request whose credential exchange failed, by a
\* non-success answer of the identity endpoint or by a transport failure,
\* is answered 401.
C15_AuthFailureIs401 ==
  \A p \in Procs :
    (proc[p].op = "flights" /\ proc[p].pc = "done"
       /\ proc[p].exchange \in {"http", "network"}) =>
      proc[p].status = 401

\* ------------------------------------------------------------------------
\* C16
\* ------------------------------------------------------------------------
\* C16: a GET /api/flights or GET /api/airports request whose search made
\* 3 attempts that were all aborted at the deadline is answered 504.
C16_TimeoutIs504 ==
  \A p \in Procs :
    (proc[p].pc = "done" /\ (proc[p].op = "flights" \/ proc[p].route = "airports")
       /\ proc[p].httpCalls = MAX_RETRIES /\ proc[p].uniform = "abort") =>
      proc[p].status = 504

\* ------------------------------------------------------------------------
\* C17
\* ------------------------------------------------------------------------
\* C17: a GET /api/flights or GET /api/airports request whose search was
\* rejected by the rate-limit gate is answered 429 (also when the airports
\* handler went through getAirport first), and a GET /api/flights request
\* whose 3 attempts were all answered 429 by upstream is answered 429.
C17_RateLimitedIs429 ==
  \A p \in Procs :
    LET r == proc[p]
    IN /\ (r.pc = "done" /\ (r.op = "flights" \/ r.route = "airports")
            /\ r.gate = "reject") =>
           r.status = 429
       /\ (r.pc = "done" /\ r.op = "flights"
            /\ r.httpCalls = MAX_RETRIES /\ r.uniform = "429") =>
           r.status = 429

\* ------------------------------------------------------------------------
\* C18
\* ------------------------------------------------------------------------
\* C18: applyFilters with the filter state of "no filter" returns the list
\* it was given, same flights in the same order, whatever the list holds
\* (flights with 3 stops included).
C18_NoopFiltersIdentity ==
  (calc /= None /\ calc.fn = "applyFilters" /\ calc.filters = NoopFilters) =>
    calc.out = Some(calc.flights)

\* ------------------------------------------------------------------------
\* C19
\* ------------------------------------------------------------------------
\* C19: with only maxDuration set, applyFilters keeps exactly the flights
\* whose itinerary duration in minutes is at most maxDuration, and
\* sortFlights by duration orders the flights by the itinerary duration.
C19_TotalDuration ==
  LET total(f) == Val(f.duration.hours) * 60 + Val(f.duration.minutes)
      out == Val(calc.out)
  IN /\ (calc /= None /\ calc.fn = "applyFilters"
            /\ \E m \in {60, 120, 480, 840} :
                  calc.filters = [EmptyFilters EXCEPT !.maxDuration = Some(m)]) =>
          LET Keep(f) == total(f) <= Val(calc.filters.maxDuration)
          IN out = SelectSeq(calc.flights, Keep)
     /\ (calc /= None /\ calc.fn = "sortFlights" /\ calc.sortBy = "duration") =>
          \A i, j \in 1..Len(out) :
             i < j => IF calc.order = "asc" THEN total(out[i]) <= total(out[j])
                      ELSE total(out[i]) >= total(out[j])

RECURSIVE EditDistance(_, _)
EditDistance(a, b) ==
  IF a = <<>> THEN Len(b)
  ELSE IF b = <<>> THEN Len(a)
  ELSE IF Head(a) = Head(b) THEN EditDistance(Tail(a), Tail(b))
  ELSE LET x == EditDistance(Tail(a), b)
           y == EditDistance(a, Tail(b))
           z == EditDistance(Tail(a), Tail(b))
           m == IF x <= y THEN x ELSE y
       IN 1 + (IF m <= z THEN m ELSE z)

\* C21: with both strings lowercased, fuzzyScore is 1 when they are equal,
\* else 0.9 when the candidate starts with the query, else 0.7 when the
\* candidate contains the query, else 0.5 x (1 - distance / max length) with
\* the edit distance of the two strings; the score lies in [0, 1] and a
\* score of the last kind is below 0.7.
C21_FuzzyScore ==
  (calc /= None /\ calc.fn = "fuzzyScore") =>
    LET n == toLowerCase(calc.needle)
        h == toLowerCase(calc.haystack)
        score == Val(calc.out)
        maxLen == IF Len(n) >= Len(h) THEN Len(n) ELSE Len(h)
        prefix == \E k \in 0..Len(h) : SubSeq(h, 1, k) = n
        inside == \E i \in 1..(Len(h) + 1) : \E k \in (i - 1)..Len(h) : SubSeq(h, i, k) = n
    IN /\ score >= 0 /\ score <= FUZZY_UNIT
       /\ IF n = h THEN score = FUZZY_UNIT
          ELSE IF prefix THEN score * 10 = 9 * FUZZY_UNIT
          ELSE IF inside THEN score * 10 = 7 * FUZZY_UNIT
          ELSE /\ score * 2 * maxLen = FUZZY_UNIT * (maxLen - EditDistance(n, h))
               /\ score * 10 < 7 * FUZZY_UNIT

\* a query with a capital letter scored against a candidate that neither
\* equals nor contains it in any letter case: one substitution in two
\* characters gives 0.25
C21_Witness ==
  /\ calc /= None /\ calc.fn = "fuzzyScore"
  /\ calc.needle = <<"J", "K">> /\ calc.haystack = <<"j", "j">>
  /\ Val(calc.out) * 4 = FUZZY_UNIT

C23_DegradeToEmpty ==
  \A p \in Procs :
    LET r == proc[p]
    IN (/\ r.route = "airports" /\ r.pc = "done" /\ r.op = "searchAirports"
        /\ r.error /= <<>> /\ r.gate = "pass"
        /\ IF IsSome(r.last)
           THEN /\ Val(r.last).kind /= "abort"
                /\ Val(r.last).kind = "http" => Val(r.last).status /= 429
           ELSE r.exchange \notin {"none", "ok"}) =>
         /\ r.status = 200
         /\ r.results = Some(<<>>)
         /\ ~r.fromCache

\* a keyword search whose three attempts ended with a network error was
\* answered 200 with no airports
C23_Witness ==
  /\ proc["r1"].route = "airports" /\ proc["r1"].pc = "done"
  /\ proc["r1"].op = "searchAirports" /\ proc["r1"].lookup = "none"
  /\ proc["r1"].httpCalls = MAX_RETRIES
  /\ IsSome(proc["r1"].last) /\ Val(proc["r1"].last).kind = "network"
  /\ proc["r1"].error /= <<>>
  /\ proc["r1"].status = 200 /\ proc["r1"].results = Some(<<>>)

\* ------------------------------------------------------------------------
\* C24
\* ------------------------------------------------------------------------
\* C24: a request that has sent an HTTP attempt was let pass by the gate and
\* did not find a fresh cache entry; a step of a request that waits for its
\* credential exchange, for an attempt or for a backoff timer leaves the
\* rate-limit window and the count of gate checks as they are and keeps what
\* the request read from the cache at its start; the end of a backoff wait
\* sends the next attempt, whatever the request cache holds by then.
C24_GateAndCacheOncePerRequest ==
  [][\A p \in Procs :
       LET r == proc[p]
           s == proc'[p]
       IN /\ s.httpCalls >= 1 => s.gate = "pass" /\ ~s.cacheHit
          /\ (r.pc \in {"auth", "fetch", "backoff"} /\ s /= r) =>
               /\ rateLimitMap' = rateLimitMap
               /\ windowChecks' = windowChecks
               /\ s.gate = r.gate /\ s.cached = r.cached /\ s.cacheHit = r.cacheHit
               /\ s.startedAt = r.startedAt
          /\ (r.pc = "backoff" /\ s /= r) =>
               /\ s.pc = "fetch" /\ s.attempt = r.attempt + 1
               /\ s.httpCalls = r.httpCalls + 1]_vars

\* the second attempt of a request is under way although the other request
\* has meanwhile stored a fresh answer for the same endpoint; the window has
\* counted the two requests once each
C24_Witness ==
  /\ proc["r1"].pc = "fetch" /\ proc["r1"].httpCalls = 2
  /\ proc["r2"].pc = "done" /\ proc["r2"].endpoint = proc["r1"].endpoint
  /\ proc["r2"].outcome = "ok" /\ ~proc["r2"].cacheHit
  /\ CacheHit(proc["r1"].endpoint)
  /\ rateLimitMap["global"].requestCount = 2

\* ------------------------------------------------------------------------
\* C25
\* ------------------------------------------------------------------------
\* C25: a request whose credential exchange succeeds goes on, in the same
\* step, to its first attempt with the token of that exchange, whatever the
\* other request is doing, and the step leaves that token in the cache with
\* its own expiry instant (so the cache holds the token of the exchange that
\* finished last); the request keeps its token for all its attempts.
C25_ConcurrentExchanges ==
  [][\A p \in Procs :
       LET r == proc[p]
           s == proc'[p]
           own == [token |-> <<p, now>>, expiresAt |-> now + ExpiresIn * 1000]
       IN /\ (r.pc = "auth" /\ s /= r) =>
               /\ s.pc = "fetch" /\ s.error = <<>>
               /\ s.token = Some(own.token)
               /\ cachedToken' = Some(own)
          /\ (r.pc \in {"fetch", "backoff"} /\ s /= r) =>
               /\ s.token = r.token
               /\ cachedToken' = cachedToken]_vars

\* both requests ran their own exchange at the same time; the exchange of r2
\* finished first, that of r1 a second later; both requests got their answer
\* with their own token and the cache holds the token of r1
C25_Witness ==
  /\ proc["r1"].pc = "done" /\ proc["r2"].pc = "done"
  /\ proc["r1"].outcome = "ok" /\ proc["r2"].outcome = "ok"
  /\ proc["r1"].authCalls = 1 /\ proc["r2"].authCalls = 1
  /\ proc["r1"].startedAt = 0 /\ proc["r2"].startedAt = 0
  /\ proc["r2"].token = Some(<<"r2", 0>>)
  /\ proc["r1"].token = Some(<<"r1", 1000>>)
  /\ IsSome(cachedToken) /\ Val(cachedToken).token = <<"r1", 1000>>

\* ------------------------------------------------------------------------
\* C26
\* ------------------------------------------------------------------------
\* C26: with searchFlights, searchAirports and getAirport calls of two
\* requests interleaved, the stored count of the global window is never
\* above RATE_LIMIT; a call that is let pass raises the count of the running
\* window by one (to 1 when it opens a window) whatever its operation, and
\* the count was below RATE_LIMIT before unless the window had ended; a call
\* that is rejected leaves the count as it is; no other step changes it.
C26_SharedWindow ==
  [][/\ "global" \in DOMAIN rateLimitMap' => rateLimitMap'["global"].requestCount <= 30
     /\ \A p \in Procs :
          LET r == proc[p]
              s == proc'[p]
              had == IF "global" \in DOMAIN rateLimitMap /\ now < rateLimitMap["global"].resetTime
                     THEN rateLimitMap["global"].requestCount ELSE 0
          IN (r.pc \in {"idle", "done"} /\ s /= r) =>
               /\ s.op \in {"flights", "searchAirports", "getAirport"}
               /\ s.gate = "pass" =>
                    /\ had < 30
                    /\ rateLimitMap'["global"].requestCount = had + 1
               /\ s.gate = "reject" =>
                    /\ had = 30
                    /\ rateLimitMap' = rateLimitMap
               /\ s.gate = "none" => rateLimitMap' = rateLimitMap
     /\ (\A p \in Procs : proc[p].pc \notin {"idle", "done"} \/ proc'[p] = proc[p]) =>
          rateLimitMap' = rateLimitMap]_vars

\* one permit was left: the getAirport call of r2 took it while the
\* searchFlights call of r1 was still running, and the searchAirports call
\* r1 made next was rejected
C26_Witness ==
  /\ proc["r2"].op = "getAirport" /\ proc["r2"].gate = "pass"
  /\ proc["r2"].pc \in {"auth", "fetch", "backoff"}
  /\ proc["r1"].op = "searchAirports" /\ proc["r1"].gate = "reject"
  /\ proc["r1"].pc = "done"
  /\ rateLimitMap["global"].requestCount = RATE_LIMIT
  /\ now < rateLimitMap["global"].resetTime

\* ------------------------------------------------------------------------
\* C27
\* ------------------------------------------------------------------------
\* C27: every attempt of a call, the second and third included, is sent
\* with a token that has not expired at the instant the attempt is sent (a
\* token issued at t with lifetime ExpiresIn expires at t + ExpiresIn s).
C27_AttemptsWithLiveToken ==
  \A p \in Procs :
    proc[p].pc = "fetch" =>
      proc[p].sentAt < Val(proc[p].token)[2] + ExpiresIn * 1000

\* ------------------------------------------------------------------------
\* C28
\* ------------------------------------------------------------------------
\* C28: every searchFlights call that has started completes, whatever the
\* upstream servers do, also when they never answer.
C28_EveryCallCompletes ==
  \A p \in Procs : Busy(p) ~> (proc[p].pc = "done")

\* ------------------------------------------------------------------------
\* C29
\* ------------------------------------------------------------------------
\* C29: no entry of the airport cache holds an empty list; an airports
\* request that is answered 200 with an empty list, the list of a degraded
\* upstream failure included, leaves the airport cache as it was; the
\* request that follows such an answer with the same (lowercased q, limit)
\* is not answered from the airport cache but calls the gateway client.
C29_NoEmptyEntry ==
  [][/\ \A k \in DOMAIN airportCache' : airportCache'[k].results /= <<>>
     /\ \A p \in Procs :
          LET r == proc[p]
              s == proc'[p]
              emptyAnswer(x) == /\ x.route = "airports" /\ x.pc = "done"
                                /\ x.status = 200 /\ x.results = Some(<<>>)
          IN /\ (r.pc = "resume" /\ emptyAnswer(s)) => airportCache' = airportCache
             /\ (/\ emptyAnswer(r) /\ s /= r
                 /\ s.route = "airports" /\ s.outcome /= "invalid"
                 /\ toLowerCase(Val(s.query).q) = toLowerCase(Val(r.query).q)
                 /\ s.rlimit = r.rlimit) =>
                  /\ ~s.fromCache
                  /\ s.pc /= "done"
                  /\ s.op \in {"getAirport", "searchAirports"}]_vars

\* the first request for JFK was degraded to an empty list (its getAirport
\* and searchAirports calls passed the gate and left nothing in the request
\* cache); nothing was stored, and the second request for JFK is at the
\* gateway
C29_Witness ==
  /\ started = 2
  /\ proc["r1"].route = "airports" /\ Val(proc["r1"].query).q = JFK
  /\ proc["r1"].op = "getAirport" /\ proc["r1"].pc = "fetch"
  /\ ~proc["r1"].fromCache
  /\ windowChecks.checks = 3
  /\ requestCache = <<>>
  /\ airportCache = <<>>

\* ------------------------------------------------------------------------
\* C30
\* ------------------------------------------------------------------------
\* C30: after every call of addFlight, removeFlight or clearAll the pinned
\* list holds at most maxPinnedFlights flights, no two with the same id;
\* addFlight with a flight whose id is pinned leaves the list as it is;
\* addFlight with a new flight on a full list gives the list without its
\* first (oldest) flight followed by the new one, on a list that is not full
\* the list followed by the new one; removeFlight takes the flight with the
\* id off and keeps the order of the others; clearAll empties the list.
C30_PinnedFlights ==
  [][LET prev == calc.pinnedFlights
         next == calc'.pinnedFlights
         max == calc.maxPinnedFlights
         call == calc'.last
         at(list, id) == {i \in 1..Len(list) : list[i].id = id}
     IN /\ calc'.maxPinnedFlights = max
        /\ Len(next) <= max
        /\ \A i, j \in 1..Len(next) : next[i].id = next[j].id => i = j
        /\ call.fn = "addFlight" =>
             IF at(prev, call.flight.id) /= {} THEN next = prev
             ELSE /\ next[Len(next)] = call.flight
                  /\ IF Len(prev) = max
                     THEN /\ Len(next) = max
                          /\ \A i \in 1..(max - 1) : next[i] = prev[i + 1]
                          /\ call.dropped = {prev[1]}
                     ELSE /\ Len(next) = Len(prev) + 1
                          /\ \A i \in 1..Len(prev) : next[i] = prev[i]
        /\ call.fn = "removeFlight" =>
             /\ at(next, call.flightId) = {}
             /\ Len(next) = Len(prev) - Cardinality(at(prev, call.flightId))
             /\ \A i \in 1..Len(prev) :
                  prev[i].id /= call.flightId =>
                    next[i - Cardinality({j \in at(prev, call.flightId) : j < i})] = prev[i]
        /\ call.fn = "clearAll" => next = <<>>]_vars

\* a bar for 3 flights held f1, f2, f3 when f4 was added: f1, the oldest, is
\* gone and f4 is last
C30_Witness ==
  /\ calc /= None /\ calc.fn = "useCompareBar" /\ calc.maxPinnedFlights = 3
  /\ calc.last.fn = "addFlight" /\ calc.last.flight.id = "f4"
  /\ calc.last.dropped = {[id |-> "f1", price |-> 1]}
  /\ calc.pinnedFlights = <<[id |-> "f2", price |-> 1], [id |-> "f3", price |-> 1],
                            [id |-> "f4", price |-> 2]>>

====
